---- MODULE Spec2Model ----
(***************************************************************************)
(* The on-disk derived-image cache of AutoRAG-data (src-tauri): the        *)
(* CacheManager (cache/manager.rs), the lock-guarded command handlers of   *)
(* commands/cache.rs, and the tiered resolution of a page's image.         *)
(***************************************************************************)
EXTENDS Integers, Sequences, FiniteSets, TLC

VARIABLES
    disk,       \* the cache directory: [dirs: set of directories, files: file -> content]
    last,       \* store level: the last CacheManager call, its arguments and its result
    nops,       \* store level: number of CacheManager calls made so far
    cacheMgr,   \* whether the managed Mutex<Option<CacheManager>> holds Some
    lock,       \* holder of the Mutex around the CacheManager (0: free)
    conn,       \* AppState: [pool: Option<PgPool>, name: Option<String>]
    pages,      \* table page: id -> row
    chunks,     \* table image_chunk: id -> row
    srcFiles,   \* the source files (origin-file hints) that exist on disk
    hs,         \* the command handlers: handler -> its position and locals
    ncalls,     \* number of commands invoked so far
    db          \* the tables file, document, query and retrieval_relation, the
                \* sequences of the serial ids, and the open transactions

\* -------------------------------------------------------------------------
\* Bounds of the model
\* -------------------------------------------------------------------------

\* Number of distinct decodable images that can be handed to the store.
NumImages == 2
\* Number of CacheManager calls explored in one store-level run.
MaxOps == 3
\* Number of commands invoked in one command-level run.
MaxCalls == 3
\* Largest number of pages of a document
MaxPages == 2
\* Longest database name
MaxNameLen == 3
\* Image sides explored: 1..MaxSide, and the multiples of the two target
\* sizes up to MaxSide times the size, each with its two neighbours.
MaxSide == 3

\* -------------------------------------------------------------------------
\* Program constants
\* -------------------------------------------------------------------------

THUMBNAIL_SIZE == 200
PREVIEW_SIZE == 1200

\* -------------------------------------------------------------------------
\* Values
\* -------------------------------------------------------------------------

\* Raw byte strings: 0 is a byte string that is no image, 1..NumImages are
\* distinct decodable images.
RawBytes == 0..NumImages

\* image::load_from_memory succeeds
Decodable(b) == b >= 1

\* A file is named by <<directory, id, extension>>; a directory by the
\* sequence of its components below cache_dir (cache_dir itself is <<>>).
NoKey == << <<>>, 0, "" >>

OkPath(key) == [tag |-> "Ok", kind |-> "path", key |-> key, src |-> <<>>, n |-> 0]
OkSource(s) == [tag |-> "Ok", kind |-> "source", key |-> NoKey, src |-> s, n |-> 0]
OkUnit == [tag |-> "Ok", kind |-> "unit", key |-> NoKey, src |-> <<>>, n |-> 0]
OkNum(n) == [tag |-> "Ok", kind |-> "num", key |-> NoKey, src |-> <<>>, n |-> n]
Err(e) == [tag |-> "Err", kind |-> e, key |-> NoKey, src |-> <<>>, n |-> 0]
NoRet == [tag |-> "None", kind |-> "none", key |-> NoKey, src |-> <<>>, n |-> 0]

\* File contents.  A derivative is the WebP re-encoding of image b resized to
\* max dimension d; a truncated file is what a failed encode/write leaves.
WebP(b, d) == <<"webp", b, d>>
Truncated == <<"truncated", 0, 0>>
Verbatim(b) == <<"raw", b, 0>>

IsComplete(c) == c[1] \in {"webp", "raw"}

\* metadata.len() of a file
FileLen(c) == IF c[1] = "truncated" THEN 0 ELSE 1

\* Option<String>, a string being its sequence of characters
NoneStr == [some |-> FALSE, s |-> <<>>]
SomeStr(s) == [some |-> TRUE, s |-> s]

\* NULL in a BYTEA column / Option<Vec<u8>>::None
NoBytes == -1

\* An empty table
NoRows == [k \in {} |-> 0]

\* The tables other than page and image_chunk, empty; seq holds the last
\* value each serial id sequence has handed out, tx the uncommitted rows of
\* the open transactions.
NoTables ==
    [file |-> {}, document |-> NoRows, query |-> {}, retrieval_relation |-> {},
     seq |-> [t \in {"file", "document", "page", "image_chunk", "query"} |-> 0],
     tx |-> NoRows]

\* AppState::new
NotConnected == [pool |-> NoneStr, name |-> NoneStr]

\* -------------------------------------------------------------------------
\* std::fs / std::path
\* -------------------------------------------------------------------------

\* PathBuf::join of a fixed, non-empty directory name
Join(d, c) == Append(d, c)

\* PathBuf::join of a string given as its sequence of characters: joining
\* the empty string names the same directory.
JoinStr(d, s) == IF s = <<>> THEN d ELSE Append(d, s)

IsPrefix(d, p) == Len(d) <= Len(p) /\ SubSeq(p, 1, Len(d)) = d

DirExists(fs, d) == d \in fs.dirs

FileExists(fs, k) == k \in DOMAIN fs.files

\* fs::create_dir_all
CreateDirAll(fs, d) ==
    [fs EXCEPT !.dirs = @ \cup { SubSeq(d, 1, n) : n \in 0..Len(d) }]

\* fs::remove_dir_all
RemoveDirAll(fs, d) ==
    [dirs |-> { x \in fs.dirs : ~IsPrefix(d, x) },
     files |-> [k \in { x \in DOMAIN fs.files : ~IsPrefix(d, x[1]) } |-> fs.files[k]]]

\* File::create + write of the whole content
WriteFile(fs, k, c) ==
    [fs EXCEPT !.files = [x \in DOMAIN fs.files \cup {k} |->
                             IF x = k THEN c ELSE fs.files[x]]]

RECURSIVE SumLen(_, _)
SumLen(f, S) ==
    IF S = {} THEN 0
    ELSE LET k == CHOOSE x \in S : TRUE
         IN FileLen(f[k]) + SumLen(f, S \ {k})

\* -------------------------------------------------------------------------
\* Database names and namespaces (commands/database.rs)
\* -------------------------------------------------------------------------

\* Strings are sequences of characters.
\* char::is_alphanumeric
IsAlphanumeric(c) == c \in {"a", "b", "A", "1"}

\* Mutant of sanitize_for_path: the name is used as it is.
SanitizeMutIdentity(name) == name

\* sanitize_for_path
sanitize_for_path(name) ==
    [i \in 1..Len(name) |->
        IF IsAlphanumeric(name[i]) \/ name[i] = "-" \/ name[i] = "_"
        THEN name[i] ELSE "_"]

\* -------------------------------------------------------------------------
\* CacheManager (cache/manager.rs)
\* -------------------------------------------------------------------------

cache_dir == <<>>

\* CacheManager::new
NewDisk ==
    CreateDirAll(CreateDirAll([dirs |-> {cache_dir}, files |-> [k \in {} |-> Truncated]],
                              Join(cache_dir, "thumbnails")),
                 Join(cache_dir, "previews"))

thumbnail_path(db_name, chunk_id) ==
    << JoinStr(Join(cache_dir, "thumbnails"), db_name), chunk_id, "webp" >>

preview_path(db_name, chunk_id) ==
    << JoinStr(Join(cache_dir, "previews"), db_name), chunk_id, "webp" >>

has_thumbnail(fs, db_name, chunk_id) == FileExists(fs, thumbnail_path(db_name, chunk_id))

has_preview(fs, db_name, chunk_id) == FileExists(fs, preview_path(db_name, chunk_id))

\* Mutant of GenerateFromBytes: the "skip if already exists" test is missing.
GenerateMutOverwrite(fs, path, size, image_bytes, io) ==
    IF io = "mkdir_err" THEN [fs |-> fs, res |-> Err("Io")]
    ELSE LET fs1 == CreateDirAll(fs, path[1])
         IN IF ~Decodable(image_bytes) THEN [fs |-> fs1, res |-> Err("Io")]
            ELSE IF io = "write_err"
                 THEN [fs |-> WriteFile(fs1, path, Truncated), res |-> Err("Io")]
                 ELSE [fs |-> WriteFile(fs1, path, WebP(image_bytes, size)),
                       res |-> OkPath(path)]

\* Mutant of GenerateFromBytes: the file is created before the bytes are
\* decoded.
GenerateMutCreateFirst(fs, path, size, image_bytes, io) ==
    IF FileExists(fs, path) THEN [fs |-> fs, res |-> OkPath(path)]
    ELSE IF io = "mkdir_err" THEN [fs |-> fs, res |-> Err("Io")]
    ELSE LET fs1 == CreateDirAll(fs, path[1])
         IN IF ~Decodable(image_bytes)
            THEN [fs |-> WriteFile(fs1, path, Truncated), res |-> Err("Io")]
            ELSE IF io = "write_err"
                 THEN [fs |-> WriteFile(fs1, path, Truncated), res |-> Err("Io")]
                 ELSE [fs |-> WriteFile(fs1, path, WebP(image_bytes, size)),
                       res |-> OkPath(path)]

\* Mutant of GenerateFromBytes: an existing target is an error (create_new)
\* instead of being returned unchanged.
GenerateMutFailIfExists(fs, path, size, image_bytes, io) ==
    IF FileExists(fs, path) THEN [fs |-> fs, res |-> Err("Io")]
    ELSE IF io = "mkdir_err" THEN [fs |-> fs, res |-> Err("Io")]
    ELSE LET fs1 == CreateDirAll(fs, path[1])
         IN IF ~Decodable(image_bytes) THEN [fs |-> fs1, res |-> Err("Io")]
            ELSE IF io = "write_err"
                 THEN [fs |-> WriteFile(fs1, path, Truncated), res |-> Err("Io")]
                 ELSE [fs |-> WriteFile(fs1, path, WebP(image_bytes, size)),
                       res |-> OkPath(path)]

\* The body shared by generate_thumbnail_from_bytes and
\* generate_preview_from_bytes.  io is what the filesystem does to the write:
\* "ok", "mkdir_err" (create_dir_all fails) or "write_err" (save_with_format
\* has created the file and fails before the image is completely written).
GenerateFromBytes(fs, path, size, image_bytes, io) ==
    IF FileExists(fs, path) THEN [fs |-> fs, res |-> OkPath(path)]
    ELSE IF io = "mkdir_err" THEN [fs |-> fs, res |-> Err("Io")]
    ELSE LET fs1 == CreateDirAll(fs, path[1])
         IN IF ~Decodable(image_bytes) THEN [fs |-> fs1, res |-> Err("Io")]
            ELSE IF io = "write_err"
                 THEN [fs |-> WriteFile(fs1, path, Truncated), res |-> Err("Io")]
                 ELSE [fs |-> WriteFile(fs1, path, WebP(image_bytes, size)),
                       res |-> OkPath(path)]

generate_thumbnail_from_bytes(fs, image_bytes, db_name, chunk_id, io) ==
    GenerateFromBytes(fs, thumbnail_path(db_name, chunk_id), THUMBNAIL_SIZE, image_bytes, io)

generate_preview_from_bytes(fs, image_bytes, db_name, chunk_id, io) ==
    GenerateFromBytes(fs, preview_path(db_name, chunk_id), PREVIEW_SIZE, image_bytes, io)

\* An image whose decoded dimensions matter is named by them: image
\* ImageOf(w, h) decodes to w x h pixels.
SideBase == (MaxSide + 1) * PREVIEW_SIZE

ImageOf(w, h) == w * SideBase + h

\* DynamicImage::width / DynamicImage::height of the decoded image
width(image_bytes) == image_bytes \div SideBase

height(image_bytes) == image_bytes % SideBase

\* (n / d).round() as computed in f64: the nearest integer; when n / d lies
\* exactly half way the f64 product can fall on either side of the tie.
RoundF64(n, d) ==
    IF (2 * n) % (2 * d) = d THEN {n \div d, n \div d + 1}
    ELSE {(2 * n + d) \div (2 * d)}

AtLeastOne(n) == IF n < 1 THEN 1 ELSE n

\* Mutant of resize_dimensions: the larger of the two ratios is used (fill).
ResizeMutFill(w, h, nwidth, nheight, fill) ==
    LET byWidth == nwidth * h >= nheight * w
        num == IF byWidth THEN nwidth ELSE nheight
        den == IF byWidth THEN w ELSE h
    IN { <<AtLeastOne(nw), AtLeastOne(nh)>> :
           nw \in RoundF64(w * num, den), nh \in RoundF64(h * num, den) }

\* image::math::utils::resize_dimensions, called by DynamicImage::resize
\* with fill = false: ratio = min(nwidth / width, nheight / height) and
\* each side is max(round(side * ratio), 1).  The results are far below
\* u32::MAX for every side below SideBase.
resize_dimensions(w, h, nwidth, nheight, fill) ==
    LET byWidth == IF fill THEN nwidth * h >= nheight * w
                   ELSE nwidth * h <= nheight * w
        num == IF byWidth THEN nwidth ELSE nheight
        den == IF byWidth THEN w ELSE h
    IN { <<AtLeastOne(nw), AtLeastOne(nh)>> :
           nw \in RoundF64(w * num, den), nh \in RoundF64(h * num, den) }

\* The dimensions of a stored derivative WebP(b, size):
\* img.resize(size, size, Lanczos3) saved with save_with_format.
DerivativeDimensions(c) ==
    resize_dimensions(width(c[2]), height(c[2]), c[3], c[3], FALSE)

\* CacheManager::clear_db_cache
clear_db_cache(fs, db_name) ==
    LET thumb_dir == JoinStr(Join(cache_dir, "thumbnails"), db_name)
        fs1 == IF DirExists(fs, thumb_dir) THEN RemoveDirAll(fs, thumb_dir) ELSE fs
        preview_dir == JoinStr(Join(cache_dir, "previews"), db_name)
    IN IF DirExists(fs1, preview_dir) THEN RemoveDirAll(fs1, preview_dir) ELSE fs1

\* CacheManager::clear_cache
clear_cache(fs) ==
    LET thumbnails_dir == Join(cache_dir, "thumbnails")
        fs1 == IF DirExists(fs, thumbnails_dir)
               THEN CreateDirAll(RemoveDirAll(fs, thumbnails_dir), thumbnails_dir)
               ELSE fs
        previews_dir == Join(cache_dir, "previews")
    IN IF DirExists(fs1, previews_dir)
       THEN CreateDirAll(RemoveDirAll(fs1, previews_dir), previews_dir)
       ELSE fs1

\* CacheManager::dir_size, summed over the files below path
dir_size(fs, path) ==
    SumLen(fs.files, { k \in DOMAIN fs.files : IsPrefix(path, k[1]) })

\* CacheManager::get_cache_size
get_cache_size(fs) == IF DirExists(fs, cache_dir) THEN dir_size(fs, cache_dir) ELSE 0

\* -------------------------------------------------------------------------
\* Store level: the CacheManager's operations called one after another
\* -------------------------------------------------------------------------

\* Namespaces are outputs of sanitize_for_path; the empty database name
\* sanitizes to the empty string.
StoreNamespaces == { sanitize_for_path(n) : n \in {<<>>, <<"a">>, <<"b">>} }
StoreTiers == {"thumbnails", "previews"}
StoreIds == {1}
IoOutcomes == {"ok", "mkdir_err", "write_err"}

TierPath(tier, db_name, chunk_id) ==
    IF tier = "thumbnails" THEN thumbnail_path(db_name, chunk_id)
    ELSE preview_path(db_name, chunk_id)

TierSize(tier) == IF tier = "thumbnails" THEN THUMBNAIL_SIZE ELSE PREVIEW_SIZE

Call(op, tier, ns, id, bytes, existed, res) ==
    [op |-> op, tier |-> tier, ns |-> ns, id |-> id, bytes |-> bytes,
     existed |-> existed, res |-> res]

cmdVars == <<cacheMgr, lock, conn, pages, chunks, srcFiles, hs, ncalls, db>>

storeVars == <<last, nops>>

vars == <<disk, last, nops, cacheMgr, lock, conn, pages, chunks, srcFiles, hs, ncalls, db>>

NoCall == Call("new", "", <<>>, 0, 0, FALSE, OkUnit)

StoreInit ==
    /\ disk = NewDisk
    /\ last = NoCall
    /\ nops = 0
    /\ cacheMgr = TRUE
    /\ lock = 0
    /\ conn = NotConnected
    /\ pages = NoRows
    /\ chunks = NoRows
    /\ srcFiles = {}
    /\ hs = NoRows
    /\ ncalls = 0
    /\ db = NoTables

\* store_derivative(tier, namespace, id, raw_bytes)
StoreDerivative(tier, db_name, chunk_id, image_bytes, io) ==
    /\ nops < MaxOps
    /\ LET r == IF tier = "thumbnails"
                THEN generate_thumbnail_from_bytes(disk, image_bytes, db_name, chunk_id, io)
                ELSE generate_preview_from_bytes(disk, image_bytes, db_name, chunk_id, io)
       IN /\ disk' = r.fs
          /\ last' = Call("store", tier, db_name, chunk_id, image_bytes,
                          FileExists(disk, TierPath(tier, db_name, chunk_id)), r.res)
    /\ nops' = nops + 1
    /\ UNCHANGED cmdVars

\* clear_namespace(namespace)
ClearNamespace(db_name) ==
    /\ nops < MaxOps
    /\ disk' = clear_db_cache(disk, db_name)
    /\ last' = Call("clear_namespace", "", db_name, 0, 0, FALSE, OkUnit)
    /\ nops' = nops + 1
    /\ UNCHANGED cmdVars

\* clear_all()
ClearAll ==
    /\ nops < MaxOps
    /\ disk' = clear_cache(disk)
    /\ last' = Call("clear_all", "", <<>>, 0, 0, FALSE, OkUnit)
    /\ nops' = nops + 1
    /\ UNCHANGED cmdVars

\* total_size()
TotalSize ==
    /\ nops < MaxOps
    /\ disk' = disk
    /\ last' = Call("total_size", "", <<>>, 0, 0, FALSE, OkNum(get_cache_size(disk)))
    /\ nops' = nops + 1
    /\ UNCHANGED cmdVars

StoreNext ==
    \/ \E tier \in StoreTiers, ns \in StoreNamespaces, id \in StoreIds,
          b \in RawBytes, io \in IoOutcomes :
          StoreDerivative(tier, ns, id, b, io)
    \/ \E ns \in StoreNamespaces : ClearNamespace(ns)
    \/ ClearAll
    \/ TotalSize

SpecStore == StoreInit /\ [][StoreNext]_vars

\* -------------------------------------------------------------------------
\* Store-level claims
\* -------------------------------------------------------------------------

LastPath == TierPath(last.tier, last.ns, last.id)

\* C1: idempotent derivation (first-write-wins).  When store_derivative has
\* returned Ok for (tier, namespace, id) and the very next call is a
\* store_derivative for the same (tier, namespace, id), both with valid image
\* bytes, the second call returns the same path and writes nothing: the disk
\* is unchanged, the file exists at the entry's path, and when the entry was
\* absent before the first call its content is the first call's output.
C1_FirstWriteWins ==
    [][ ( /\ nops' = nops + 1
          /\ last.op = "store" /\ last.res.tag = "Ok" /\ Decodable(last.bytes)
          /\ last'.op = "store" /\ Decodable(last'.bytes)
          /\ last'.tier = last.tier /\ last'.ns = last.ns /\ last'.id = last.id )
        => ( /\ last'.res = OkPath(LastPath)
             /\ last'.res = last.res
             /\ disk' = disk
             /\ FileExists(disk', LastPath)
             /\ (~last.existed =>
                    disk'.files[LastPath] = WebP(last.bytes, TierSize(last.tier))) )
      ]_vars

\* C1 witness: two calls were made, the second a successful store_derivative
\* on an existing entry whose content derives from other bytes than its own.
C1_Witness ==
    /\ nops = 2
    /\ last.op = "store" /\ last.existed /\ last.res.tag = "Ok"
    /\ Decodable(last.bytes)
    /\ FileExists(disk, LastPath)
    /\ disk.files[LastPath][1] = "webp"
    /\ disk.files[LastPath][2] # last.bytes

\* C8: all-or-nothing derivative writes.  Every file present at a
\* thumbnail/preview entry path is a complete derivative, and a
\* store_derivative call that failed on an absent entry leaves exists() false.
C8_AllOrNothing ==
    /\ \A tier \in StoreTiers, ns \in StoreNamespaces, id \in StoreIds :
          FileExists(disk, TierPath(tier, ns, id))
             => IsComplete(disk.files[TierPath(tier, ns, id)])
    /\ (last.op = "store" /\ last.res.tag = "Err" /\ ~last.existed)
          => ~FileExists(disk, LastPath)

\* C9: namespace isolation.  clear_namespace(B) returns success, removes
\* every entry stored under B, leaves every entry stored under a namespace
\* A # B existing with unchanged content, and changes nothing when B has no
\* directory.
C9_NamespaceIsolation ==
    [][ (nops' = nops + 1 /\ last'.op = "clear_namespace")
        => LET B == last'.ns
           IN /\ last'.res = OkUnit
              /\ \A tier \in StoreTiers, id \in StoreIds :
                    ~FileExists(disk', TierPath(tier, B, id))
              /\ \A A \in StoreNamespaces \ {B}, tier \in StoreTiers, id \in StoreIds :
                    FileExists(disk, TierPath(tier, A, id))
                      => /\ FileExists(disk', TierPath(tier, A, id))
                         /\ disk'.files[TierPath(tier, A, id)]
                              = disk.files[TierPath(tier, A, id)]
              /\ ( (\A tier \in StoreTiers :
                       ~DirExists(disk, JoinStr(Join(cache_dir, tier), B)))
                    => disk' = disk )
      ]_vars

\* -------------------------------------------------------------------------
\* Source classification (commands/cache.rs)
\* -------------------------------------------------------------------------

\* char::to_ascii_lowercase on the characters used in the model
Lower(c) ==
    CASE c = "P" -> "p" [] c = "D" -> "d" [] c = "F" -> "f"
      [] c = "N" -> "n" [] c = "G" -> "g" [] c = "A" -> "a"
      [] c = "J" -> "j" [] c = "E" -> "e" [] c = "W" -> "w"
      [] c = "B" -> "b"
      [] OTHER -> c

to_ascii_lowercase(str) == [i \in 1..Len(str) |-> Lower(str[i])]

\* Index of the last occurrence of character c in str, 0 when there is none
LastIndexOf(str, c) ==
    LET I == { i \in 1..Len(str) : str[i] = c }
    IN IF I = {} THEN 0 ELSE CHOOSE i \in I : \A j \in I : j <= i

\* Path::file_name: the last component of the path
file_name(path) == SubSeq(path, LastIndexOf(path, "/") + 1, Len(path))

\* Path::extension: the part of the file name after its last '.', none when
\* the name has no '.' or only a leading one
extension(path) ==
    LET name == file_name(path)
        dot == LastIndexOf(name, ".")
    IN IF dot <= 1 THEN NoneStr ELSE SomeStr(SubSeq(name, dot + 1, Len(name)))

Image(path) == [type |-> "Image", path |-> path]
Pdf(path) == [type |-> "Pdf", path |-> path]
NoSource == [type |-> "None", path |-> <<>>]

\* Mutant of classify_source: the test that the path exists is missing.
ClassifyMutNoExists(source_path, files) ==
    IF ~source_path.some \/ source_path.s = <<>> THEN NoSource
    ELSE LET e == extension(source_path.s)
             ext == to_ascii_lowercase(e.s)
         IN IF e.some /\ ext \in { <<"p","n","g">>, <<"j","p","g">>,
                                   <<"j","p","e","g">>, <<"w","e","b","p">> }
            THEN Image(source_path.s)
            ELSE IF e.some /\ ext = <<"p","d","f">> THEN Pdf(source_path.s)
            ELSE NoSource

\* Mutant of classify_source: the extension is compared without
\* to_ascii_lowercase.
ClassifyMutCaseSensitive(source_path, files) ==
    IF ~source_path.some \/ source_path.s = <<>> THEN NoSource
    ELSE IF source_path.s \notin files THEN NoSource
    ELSE LET e == extension(source_path.s)
         IN IF e.some /\ e.s \in { <<"p","n","g">>, <<"j","p","g">>,
                                   <<"j","p","e","g">>, <<"w","e","b","p">> }
            THEN Image(source_path.s)
            ELSE IF e.some /\ e.s = <<"p","d","f">> THEN Pdf(source_path.s)
            ELSE NoSource

\* classify_source; files is the set of paths that exist
classify_source(source_path, files) ==
    IF ~source_path.some \/ source_path.s = <<>> THEN NoSource
    ELSE IF source_path.s \notin files THEN NoSource
    ELSE LET e == extension(source_path.s)
             ext == to_ascii_lowercase(e.s)
         IN IF e.some /\ ext \in { <<"p","n","g">>, <<"j","p","g">>,
                                   <<"j","p","e","g">>, <<"w","e","b","p">> }
            THEN Image(source_path.s)
            ELSE IF e.some /\ ext = <<"p","d","f">> THEN Pdf(source_path.s)
            ELSE NoSource

\* -------------------------------------------------------------------------
\* The relational store as the cache commands query it
\* -------------------------------------------------------------------------

PageRow(document_id, page_num, source_path, image_contents) ==
    [document_id |-> document_id, page_num |-> page_num,
     source_path |-> source_path, image_contents |-> image_contents]

ChunkRow(parent_page, contents) == [parent_page |-> parent_page, contents |-> contents]

\* Mutant of FirstChunk: ORDER BY id DESC
FirstChunkMutLargest(page_id) ==
    LET C == { c \in DOMAIN chunks : chunks[c].parent_page = page_id }
    IN IF C = {} THEN 0 ELSE CHOOSE c \in C : \A d \in C : c >= d

\* SELECT id FROM image_chunk WHERE parent_page = $1 ORDER BY id ASC LIMIT 1
\* (0: no row)
FirstChunk(page_id) ==
    LET C == { c \in DOMAIN chunks : chunks[c].parent_page = page_id }
    IN IF C = {} THEN 0 ELSE CHOOSE c \in C : \A d \in C : c <= d

\* The ids of a set, ascending
RECURSIVE Ascending(_)
Ascending(S) ==
    IF S = {} THEN <<>>
    ELSE LET m == CHOOSE x \in S : \A y \in S : x <= y
         IN <<m>> \o Ascending(S \ {m})

\* SELECT DISTINCT ON (p.id) ic.id ... WHERE p.document_id = $1
\* ORDER BY p.id, ic.id ASC: the first chunk of every page of the document
\* that has one, by page id
FirstChunksOfDocument(document_id) ==
    LET P == { q \in DOMAIN pages :
                 pages[q].document_id = document_id /\ FirstChunk(q) # 0 }
        ps == Ascending(P)
    IN [i \in 1..Len(ps) |-> FirstChunk(ps[i])]

\* SELECT id, contents FROM image_chunk WHERE id = ANY($1)
ChunkRowsOf(ids) ==
    Ascending({ c \in DOMAIN chunks : \E i \in 1..Len(ids) : ids[i] = c })

\* -------------------------------------------------------------------------
\* The original tier of the CacheManager (original_path, save_original)
\* -------------------------------------------------------------------------

original_path(db_name, page_id) ==
    << JoinStr(Join(cache_dir, "originals"), db_name), page_id, "png" >>

\* save_original: the bytes are stored verbatim; an existing entry is
\* returned unchanged; a failed write leaves no file.
save_original(fs, bytes, db_name, page_id, io) ==
    LET path == original_path(db_name, page_id)
    IN IF FileExists(fs, path) THEN [fs |-> fs, res |-> OkPath(path)]
       ELSE IF io = "mkdir_err" THEN [fs |-> fs, res |-> Err("Io")]
       ELSE IF io = "write_err"
            THEN [fs |-> CreateDirAll(fs, path[1]), res |-> Err("Io")]
            ELSE [fs |-> WriteFile(CreateDirAll(fs, path[1]), path, Verbatim(bytes)),
                  res |-> OkPath(path)]

\* -------------------------------------------------------------------------
\* Cache helpers of commands/cache.rs.  Each locks the Mutex, runs while
\* holding it and drops the guard when it returns; mgr is whether the
\* Option<CacheManager> is Some.
\* -------------------------------------------------------------------------

NotInitialized == Err("Cache")

\* The MutexGuard is dropped when the helper (or the command's body) returns.
DropGuardMutKept(h) == h

DropGuard(h) == 0

\* Mutant of HasThumbnail: no thumbnail is ever reported present.
HasThumbnailMutNever(mgr, fs, db_name, chunk_id) ==
    IF ~mgr THEN [res |-> NotInitialized, has |-> FALSE]
    ELSE [res |-> OkUnit, has |-> FALSE]

\* Mutant of check_and_get_original_path: the entry is never reported cached.
CheckOriginalMutMiss(mgr, fs, db_name, page_id) ==
    IF ~mgr THEN [res |-> NotInitialized, exists |-> FALSE]
    ELSE [res |-> OkPath(original_path(db_name, page_id)), exists |-> FALSE]

\* check_and_get_original_path: (path, exists)
check_and_get_original_path(mgr, fs, db_name, page_id) ==
    IF ~mgr THEN [res |-> NotInitialized, exists |-> FALSE]
    ELSE [res |-> OkPath(original_path(db_name, page_id)),
          exists |-> FileExists(fs, original_path(db_name, page_id))]

\* save_original (the helper)
SaveOriginal(mgr, fs, bytes, db_name, page_id, io) ==
    IF ~mgr THEN [fs |-> fs, res |-> NotInitialized]
    ELSE save_original(fs, bytes, db_name, page_id, io)

\* check_and_get_thumbnail_path / check_and_get_preview_path: (path, exists)
check_and_get_path(mgr, fs, tier, db_name, chunk_id) ==
    IF ~mgr THEN [res |-> NotInitialized, exists |-> FALSE]
    ELSE [res |-> OkPath(TierPath(tier, db_name, chunk_id)),
          exists |-> FileExists(fs, TierPath(tier, db_name, chunk_id))]

\* generate_thumbnail / generate_preview
generate(mgr, fs, tier, image_bytes, db_name, chunk_id, io) ==
    IF ~mgr THEN [fs |-> fs, res |-> NotInitialized]
    ELSE IF tier = "thumbnails"
         THEN generate_thumbnail_from_bytes(fs, image_bytes, db_name, chunk_id, io)
         ELSE generate_preview_from_bytes(fs, image_bytes, db_name, chunk_id, io)

\* has_thumbnail (the helper): Ok(bool) or the Cache error
HasThumbnail(mgr, fs, db_name, chunk_id) ==
    IF ~mgr THEN [res |-> NotInitialized, has |-> FALSE]
    ELSE [res |-> OkUnit, has |-> has_thumbnail(fs, db_name, chunk_id)]

\* -------------------------------------------------------------------------
\* Command handlers (commands/cache.rs).  A handler's pc names the point it
\* is at: an "await" point (a database round-trip or the wait for the
\* blocking render task), the lock() of a cache helper ("..._lock"), or the
\* helper's body run while holding the lock ("..._cs").
\* -------------------------------------------------------------------------

NoPrev ==
    [cmd |-> "none", arg |-> 0, source |-> "-", fetched |-> FALSE, res |-> NoRet,
     pool |-> <<>>, db_name |-> <<>>]

Idle ==
    [pc |-> "idle", cmd |-> "none", arg |-> 0, db_name |-> <<>>, pool |-> <<>>,
     tier |-> "",
     source |-> NoSource, page_num |-> 0, chunk_id |-> 0, exists |-> FALSE,
     bytes |-> NoBytes, fetched |-> FALSE, render |-> "-", io |-> "-",
     rival |-> FALSE,
     todo |-> <<>>, uncached |-> <<>>, chunk_rows |-> <<>>, generated |-> 0,
     created |-> 0, fault |-> FALSE, lock_err |-> FALSE,
     input |-> <<>>, file_id |-> 0, document_id |-> 0, page_id |-> 0,
     cache_items |-> <<>>,
     res |-> NoRet, prev |-> NoPrev]

\* What a handler remembers of the call it completed before the current one
Summary(r) ==
    IF r.pc = "done"
    THEN [cmd |-> r.cmd, arg |-> r.arg, source |-> r.source.type,
          fetched |-> r.fetched, res |-> r.res, pool |-> r.pool,
          db_name |-> r.db_name]
    ELSE r.prev

\* The points at which a handler is suspended in an .await on a database
\* round-trip or on the blocking render task
AwaitPcs == {"full_info", "full_render", "full_fetch", "der_chunk", "der_fetch",
             "pf_rows", "pf_fetch"}

\* cache.lock() of each helper, and the helper body that follows it
CsOf ==
    [p \in {"full_check_lock", "full_save_lock", "der_check_lock", "der_gen_lock",
            "clear_lock", "clearns_lock", "size_lock", "pf_has_lock", "pf_gen_lock",
            "ing_thumb_lock", "ing_prev_lock"} |->
        CASE p = "full_check_lock" -> "full_check_cs"
          [] p = "full_save_lock" -> "full_save_cs"
          [] p = "der_check_lock" -> "der_check_cs"
          [] p = "der_gen_lock" -> "der_gen_cs"
          [] p = "clear_lock" -> "clear_cs"
          [] p = "clearns_lock" -> "clearns_cs"
          [] p = "size_lock" -> "size_cs"
          [] p = "pf_has_lock" -> "pf_has_cs"
          [] p = "pf_gen_lock" -> "pf_gen_cs"
          [] p = "ing_thumb_lock" -> "ing_thumb_cs"
          [] p = "ing_prev_lock" -> "ing_prev_cs"]

Commands == {"get_page_image_url", "get_thumbnail_url", "get_preview_url",
             "prefetch_document_thumbnails", "clear_cache", "clear_db_cache",
             "get_cache_size"}

Finish(r, result) == [r EXCEPT !.pc = "done", !.res = result]

\* The points between a resolution's cache miss and its store-write
MissedPcs == {"full_render", "full_fetch", "full_save_lock", "der_fetch", "der_gen_lock"}

\* The other handlers that are resolving the same entry as h and have
\* already missed the cache
Rivals(h) ==
    { o \in DOMAIN hs \ {h} :
        /\ hs[o].pc \in MissedPcs
        /\ hs[o].cmd = hs[h].cmd
        /\ hs[o].arg = hs[h].arg
        /\ hs[o].db_name = hs[h].db_name }

\* Handler h misses the cache and becomes r; history: h and the handlers it
\* now races with are marked as rivals.
Miss(h, r) ==
    [o \in DOMAIN hs |->
        IF o = h THEN [r EXCEPT !.rival = (Rivals(h) # {})]
        ELSE IF o \in Rivals(h) THEN [hs[o] EXCEPT !.rival = TRUE]
        ELSE hs[o]]

\* History of a store-write: "skip" when the entry existed, else what the
\* filesystem did to the write
WriteOutcome(fs, key, io) == IF FileExists(fs, key) THEN "skip" ELSE io

\* connect_database: create_pool and the connection test succeeded
Connect(database) ==
    /\ conn' = [pool |-> SomeStr(database), name |-> SomeStr(sanitize_for_path(database))]
    /\ UNCHANGED <<disk, storeVars, cacheMgr, lock, pages, chunks, db, srcFiles, hs, ncalls>>

\* disconnect_database: clear_connection closes and takes the pool, then
\* clears the namespace
Disconnect ==
    /\ conn' = NotConnected
    /\ UNCHANGED <<disk, storeVars, cacheMgr, lock, pages, chunks, db, srcFiles, hs, ncalls>>

\* A command is invoked: the handler reads the namespace and the pool
\* (NotConnected when absent) and goes to its first await or lock.  prev is
\* the history kept of the handler's previous call.
Start(h, cmd, arg, prev) ==
    /\ ncalls < MaxCalls
    /\ hs[h].pc \in {"idle", "done", "panicked"}
    /\ ncalls' = ncalls + 1
    /\ LET r == [Idle EXCEPT !.cmd = cmd, !.arg = arg, !.prev = prev,
                             !.db_name = conn.name.s, !.pool = conn.pool.s]
           next ==
             CASE cmd = "clear_cache" -> [r EXCEPT !.pc = "clear_lock"]
               [] cmd = "get_cache_size" -> [r EXCEPT !.pc = "size_lock"]
               [] cmd = "clear_db_cache" ->
                    IF ~conn.name.some THEN Finish(r, Err("NotConnected"))
                    ELSE [r EXCEPT !.pc = "clearns_lock"]
               [] OTHER ->
                    IF ~conn.name.some \/ ~conn.pool.some
                    THEN Finish(r, Err("NotConnected"))
                    ELSE CASE cmd = "get_page_image_url" -> [r EXCEPT !.pc = "full_info"]
                           [] cmd = "get_thumbnail_url" ->
                                [r EXCEPT !.pc = "der_chunk", !.tier = "thumbnails"]
                           [] cmd = "get_preview_url" ->
                                [r EXCEPT !.pc = "der_chunk", !.tier = "previews"]
                           [] cmd = "prefetch_document_thumbnails" ->
                                [r EXCEPT !.pc = "pf_rows", !.tier = "thumbnails"]
       IN hs' = [hs EXCEPT ![h] = next]
    /\ UNCHANGED <<disk, storeVars, cacheMgr, lock, conn, pages, chunks, db, srcFiles>>

\* cache.lock(): blocks until the Mutex is free
Acquire(h) ==
    /\ hs[h].pc \in DOMAIN CsOf
    /\ lock = 0
    /\ lock' = h
    /\ hs' = [hs EXCEPT ![h].pc = CsOf[hs[h].pc]]
    /\ UNCHANGED <<disk, storeVars, cacheMgr, conn, pages, chunks, db, srcFiles, ncalls>>

\* get_page_image_url: query_page_source_info returns, the source is
\* classified, a directly servable image is returned
FullInfo(h) ==
    /\ hs[h].pc = "full_info"
    /\ LET r == hs[h]
       IN IF r.arg \notin DOMAIN pages
          THEN hs' = [hs EXCEPT ![h] = Finish(r, Err("Database"))]
          ELSE LET source == classify_source(pages[r.arg].source_path, srcFiles)
                   r1 == [r EXCEPT !.source = source, !.page_num = pages[r.arg].page_num]
               IN IF source.type = "Image"
                  THEN hs' = [hs EXCEPT ![h] = Finish(r1, OkSource(source.path))]
                  ELSE hs' = [hs EXCEPT ![h] = [r1 EXCEPT !.pc = "full_check_lock"]]
    /\ UNCHANGED <<disk, storeVars, cacheMgr, lock, conn, pages, chunks, db, srcFiles, ncalls>>

\* get_page_image_url: check_and_get_original_path, then
\* read_bytes_from_source up to its await (a source that is no PDF yields
\* None without suspending)
FullCheckCS(h) ==
    /\ hs[h].pc = "full_check_cs"
    /\ LET r == hs[h]
           c == check_and_get_original_path(cacheMgr, disk, r.db_name, r.arg)
       IN IF c.res.tag = "Err"
          THEN hs' = [hs EXCEPT ![h] = Finish(r, c.res)]
          ELSE IF c.exists
          THEN hs' = [hs EXCEPT ![h] = Finish([r EXCEPT !.exists = TRUE], c.res)]
          ELSE IF r.source.type = "Pdf"
          THEN hs' = Miss(h, [r EXCEPT !.pc = "full_render"])
          ELSE hs' = Miss(h, [r EXCEPT !.pc = "full_fetch"])
    /\ lock' = DropGuard(h)
    /\ UNCHANGED <<disk, storeVars, cacheMgr, conn, pages, chunks, db, srcFiles, ncalls>>

\* get_page_image_url: the blocking render_page_to_png task returns; out is
\* the rendered PNG, or NoBytes when rendering failed
FullRender(h, out) ==
    /\ hs[h].pc = "full_render"
    /\ IF out = NoBytes
       THEN hs' = [hs EXCEPT ![h].pc = "full_fetch", ![h].render = "fail"]
       ELSE hs' = [hs EXCEPT ![h].pc = "full_save_lock", ![h].render = "ok",
                             ![h].bytes = out]
    /\ UNCHANGED <<disk, storeVars, cacheMgr, lock, conn, pages, chunks, db, srcFiles, ncalls>>

\* get_page_image_url: SELECT image_contents FROM page WHERE id = $1 returns
FullFetch(h) ==
    /\ hs[h].pc = "full_fetch"
    /\ LET r == [hs[h] EXCEPT !.fetched = TRUE]
       IN IF r.arg \notin DOMAIN pages
          THEN hs' = [hs EXCEPT ![h] = Finish(r, Err("Database"))]
          ELSE IF pages[r.arg].image_contents = NoBytes
          THEN hs' = [hs EXCEPT ![h] = Finish(r, Err("NotFound"))]
          ELSE hs' = [hs EXCEPT ![h] = [r EXCEPT !.pc = "full_save_lock",
                                                !.bytes = pages[r.arg].image_contents]]
    /\ UNCHANGED <<disk, storeVars, cacheMgr, lock, conn, pages, chunks, db, srcFiles, ncalls>>

\* get_page_image_url: save_original of the rendered or fetched bytes
FullSaveCS(h, io) ==
    /\ hs[h].pc = "full_save_cs"
    /\ LET r == [hs[h] EXCEPT
                    !.io = WriteOutcome(disk, original_path(hs[h].db_name, hs[h].arg), io)]
           w == SaveOriginal(cacheMgr, disk, r.bytes, r.db_name, r.arg, io)
       IN /\ disk' = w.fs
          /\ hs' = [hs EXCEPT ![h] = Finish(r, w.res)]
    /\ lock' = DropGuard(h)
    /\ UNCHANGED <<storeVars, cacheMgr, conn, pages, chunks, db, srcFiles, ncalls>>

\* get_thumbnail_url / get_preview_url: the first-chunk query returns
DerChunk(h) ==
    /\ hs[h].pc = "der_chunk"
    /\ LET r == hs[h]
           c == FirstChunk(r.arg)
       IN IF c = 0
          THEN hs' = [hs EXCEPT ![h] = Finish(r, Err("NotFound"))]
          ELSE hs' = [hs EXCEPT ![h] = [r EXCEPT !.chunk_id = c, !.pc = "der_check_lock"]]
    /\ UNCHANGED <<disk, storeVars, cacheMgr, lock, conn, pages, chunks, db, srcFiles, ncalls>>

\* get_thumbnail_url / get_preview_url: check_and_get_*_path
DerCheckCS(h) ==
    /\ hs[h].pc = "der_check_cs"
    /\ LET r == hs[h]
           c == check_and_get_path(cacheMgr, disk, r.tier, r.db_name, r.chunk_id)
       IN IF c.res.tag = "Err"
          THEN hs' = [hs EXCEPT ![h] = Finish(r, c.res)]
          ELSE IF c.exists
          THEN hs' = [hs EXCEPT ![h] = Finish([r EXCEPT !.exists = TRUE], c.res)]
          ELSE hs' = Miss(h, [r EXCEPT !.pc = "der_fetch"])
    /\ lock' = DropGuard(h)
    /\ UNCHANGED <<disk, storeVars, cacheMgr, conn, pages, chunks, db, srcFiles, ncalls>>

\* get_thumbnail_url / get_preview_url:
\* SELECT contents FROM image_chunk WHERE id = $1 returns
DerFetch(h) ==
    /\ hs[h].pc = "der_fetch"
    /\ LET r == [hs[h] EXCEPT !.fetched = TRUE]
       IN IF r.chunk_id \notin DOMAIN chunks
          THEN hs' = [hs EXCEPT ![h] = Finish(r, Err("Database"))]
          ELSE hs' = [hs EXCEPT ![h] = [r EXCEPT !.pc = "der_gen_lock",
                                                !.bytes = chunks[r.chunk_id].contents]]
    /\ UNCHANGED <<disk, storeVars, cacheMgr, lock, conn, pages, chunks, db, srcFiles, ncalls>>

\* get_thumbnail_url / get_preview_url: generate_thumbnail / generate_preview,
\* then the path computed by the earlier check is returned
DerGenCS(h, io) ==
    /\ hs[h].pc = "der_gen_cs"
    /\ LET r == [hs[h] EXCEPT
                    !.io = WriteOutcome(disk, TierPath(hs[h].tier, hs[h].db_name,
                                                       hs[h].chunk_id), io)]
           g == generate(cacheMgr, disk, r.tier, r.bytes, r.db_name, r.chunk_id, io)
       IN /\ disk' = g.fs
          /\ IF g.res.tag = "Err"
             THEN hs' = [hs EXCEPT ![h] = Finish(r, g.res)]
             ELSE hs' = [hs EXCEPT ![h] =
                            Finish(r, OkPath(TierPath(r.tier, r.db_name, r.chunk_id)))]
    /\ lock' = DropGuard(h)
    /\ UNCHANGED <<storeVars, cacheMgr, conn, pages, chunks, db, srcFiles, ncalls>>

\* clear_cache (the command)
ClearCacheCS(h) ==
    /\ hs[h].pc = "clear_cs"
    /\ IF ~cacheMgr
       THEN /\ hs' = [hs EXCEPT ![h] = Finish(hs[h], NotInitialized)]
            /\ disk' = disk
       ELSE /\ hs' = [hs EXCEPT ![h] = Finish(hs[h], OkUnit)]
            /\ disk' = clear_cache(disk)
    /\ lock' = DropGuard(h)
    /\ UNCHANGED <<storeVars, cacheMgr, conn, pages, chunks, db, srcFiles, ncalls>>

\* clear_db_cache (the command)
ClearDbCacheCS(h) ==
    /\ hs[h].pc = "clearns_cs"
    /\ IF ~cacheMgr
       THEN /\ hs' = [hs EXCEPT ![h] = Finish(hs[h], NotInitialized)]
            /\ disk' = disk
       ELSE /\ hs' = [hs EXCEPT ![h] = Finish(hs[h], OkUnit)]
            /\ disk' = clear_db_cache(disk, hs[h].db_name)
    /\ lock' = DropGuard(h)
    /\ UNCHANGED <<storeVars, cacheMgr, conn, pages, chunks, db, srcFiles, ncalls>>

\* get_cache_size (the command)
CacheSizeCS(h) ==
    /\ hs[h].pc = "size_cs"
    /\ IF ~cacheMgr
       THEN hs' = [hs EXCEPT ![h] = Finish(hs[h], NotInitialized)]
       ELSE hs' = [hs EXCEPT ![h] = Finish(hs[h], OkNum(get_cache_size(disk)))]
    /\ lock' = DropGuard(h)
    /\ UNCHANGED <<disk, storeVars, cacheMgr, conn, pages, chunks, db, srcFiles, ncalls>>

\* prefetch_document_thumbnails: the first-chunk-ids query returns
PfRows(h) ==
    /\ hs[h].pc = "pf_rows"
    /\ LET rows == FirstChunksOfDocument(hs[h].arg)
       IN IF rows = <<>>
          THEN hs' = [hs EXCEPT ![h] = Finish(hs[h], OkNum(0))]
          ELSE hs' = [hs EXCEPT ![h].pc = "pf_has_lock", ![h].todo = rows]
    /\ UNCHANGED <<disk, storeVars, cacheMgr, lock, conn, pages, chunks, db, srcFiles, ncalls>>

\* prefetch_document_thumbnails: has_thumbnail of the next chunk id; the id
\* is dropped only on Ok(true)
PfHasCS(h) ==
    /\ hs[h].pc = "pf_has_cs"
    /\ LET r == hs[h]
           c == Head(r.todo)
           t == HasThumbnail(cacheMgr, disk, r.db_name, c)
           uncached == IF t.res.tag = "Ok" /\ t.has THEN r.uncached
                       ELSE Append(r.uncached, c)
           r1 == [r EXCEPT !.todo = Tail(r.todo), !.uncached = uncached]
       IN IF r1.todo # <<>>
          THEN hs' = [hs EXCEPT ![h] = [r1 EXCEPT !.pc = "pf_has_lock"]]
          ELSE IF uncached = <<>>
          THEN hs' = [hs EXCEPT ![h] = Finish(r1, OkNum(0))]
          ELSE hs' = [hs EXCEPT ![h] = [r1 EXCEPT !.pc = "pf_fetch"]]
    /\ lock' = DropGuard(h)
    /\ UNCHANGED <<disk, storeVars, cacheMgr, conn, pages, chunks, db, srcFiles, ncalls>>

\* prefetch_document_thumbnails: the batch query of the uncached chunks'
\* contents returns
PfFetch(h) ==
    /\ hs[h].pc = "pf_fetch"
    /\ LET ids == ChunkRowsOf(hs[h].uncached)
           rows == [i \in 1..Len(ids) |-> <<ids[i], chunks[ids[i]].contents>>]
           r == [hs[h] EXCEPT !.fetched = TRUE, !.chunk_rows = rows]
       IN IF rows = <<>>
          THEN hs' = [hs EXCEPT ![h] = Finish(r, OkNum(0))]
          ELSE hs' = [hs EXCEPT ![h] = [r EXCEPT !.pc = "pf_gen_lock"]]
    /\ UNCHANGED <<disk, storeVars, cacheMgr, lock, conn, pages, chunks, db, srcFiles, ncalls>>

\* prefetch_document_thumbnails: generate_thumbnail of the next fetched row,
\* counted when it returns Ok.  History: created counts the thumbnails this
\* call wrote, fault records a write that met an I/O error.
PfGenCS(h, io) ==
    /\ hs[h].pc = "pf_gen_cs"
    /\ LET r == hs[h]
           row == Head(r.chunk_rows)
           g == generate(cacheMgr, disk, "thumbnails", row[2], r.db_name, row[1], io)
           key == thumbnail_path(r.db_name, row[1])
           r1 == [r EXCEPT !.chunk_rows = Tail(r.chunk_rows),
                           !.generated = IF g.res.tag = "Ok" THEN @ + 1 ELSE @,
                           !.created = IF ~FileExists(disk, key) /\ g.res.tag = "Ok"
                                       THEN @ + 1 ELSE @,
                           !.fault = @ \/ (cacheMgr /\ WriteOutcome(disk, key, io)
                                                        \in {"mkdir_err", "write_err"})]
       IN /\ disk' = g.fs
          /\ IF r1.chunk_rows # <<>>
             THEN hs' = [hs EXCEPT ![h] = [r1 EXCEPT !.pc = "pf_gen_lock"]]
             ELSE hs' = [hs EXCEPT ![h] = Finish(r1, OkNum(r1.generated))]
    /\ lock' = DropGuard(h)
    /\ UNCHANGED <<storeVars, cacheMgr, conn, pages, chunks, db, srcFiles, ncalls>>

\* One step of handler h
HandlerStep(h) ==
    \/ Acquire(h)
    \/ FullInfo(h)
    \/ FullCheckCS(h)
    \/ \E out \in {NoBytes} \cup (1..NumImages) : FullRender(h, out)
    \/ FullFetch(h)
    \/ \E io \in IoOutcomes : FullSaveCS(h, io)
    \/ DerChunk(h)
    \/ DerCheckCS(h)
    \/ DerFetch(h)
    \/ \E io \in IoOutcomes : DerGenCS(h, io)
    \/ ClearCacheCS(h)
    \/ ClearDbCacheCS(h)
    \/ CacheSizeCS(h)
    \/ PfRows(h)
    \/ PfHasCS(h)
    \/ PfFetch(h)
    \/ \E io \in IoOutcomes : PfGenCS(h, io)

\* What CacheManager::new(cache_path).ok() left on disk
DiskAfterNew(mgr) ==
    IF mgr THEN NewDisk ELSE [dirs |-> {}, files |-> [k \in {} |-> Truncated]]

\* -------------------------------------------------------------------------
\* Sequential resolution: one handler, every kind of page
\* -------------------------------------------------------------------------

ResolveHints ==
    { NoneStr,
      SomeStr(<<"s", ".", "p", "d", "f">>),
      SomeStr(<<"s", ".", "P", "N", "G">>),
      SomeStr(<<"s", ".", "t", "x", "t">>) }

ResolveInit ==
    /\ cacheMgr \in BOOLEAN
    /\ disk = DiskAfterNew(cacheMgr)
    /\ last = NoCall
    /\ nops = 0
    /\ lock = 0
    /\ conn = NotConnected
    /\ \E hint \in ResolveHints, contents \in {NoBytes, 1} :
          pages = (1 :> PageRow(1, 1, hint, contents))
    /\ chunks = (1 :> ChunkRow(1, 1))
    /\ srcFiles \in { {}, {pages[1].source_path.s} }
    /\ hs = [h \in {1} |-> Idle]
    /\ ncalls = 0
    /\ db = NoTables

ResolveNext ==
    \/ Connect(<<"a">>)
    \/ \E cmd \in Commands, arg \in {1, 2} : Start(1, cmd, arg, Summary(hs[1]))
    \/ HandlerStep(1)

SpecResolve == ResolveInit /\ [][ResolveNext]_vars

\* -------------------------------------------------------------------------
\* Concurrent handlers: two handlers on one page of a PDF document
\* -------------------------------------------------------------------------

Handlers == {1, 2}

Init ==
    /\ cacheMgr \in BOOLEAN
    /\ disk = DiskAfterNew(cacheMgr)
    /\ last = NoCall
    /\ nops = 0
    /\ lock = 0
    /\ conn = NotConnected
    /\ pages = (1 :> PageRow(1, 1, SomeStr(<<"s", ".", "p", "d", "f">>), 1))
    /\ chunks = (1 :> ChunkRow(1, 1))
    /\ srcFiles = {<<"s", ".", "p", "d", "f">>}
    /\ hs = [h \in Handlers |-> Idle]
    /\ ncalls = 0
    /\ db = NoTables

Next ==
    \/ Connect(<<"a">>)
    \/ \E h \in Handlers, cmd \in Commands : Start(h, cmd, 1, NoPrev)
    \/ \E h \in Handlers : HandlerStep(h)

Spec == Init /\ [][Next]_vars

\* -------------------------------------------------------------------------
\* Ingest (commands/ingest.rs): ingest_pdf and ingest_images.  The input is
\* the sequence of what each page (PDF page or image file) renders to: an
\* image 1..NumImages, or 0 when rendering / decoding it fails.  Every
\* statement sent to the database may fail (ok = FALSE).
\* -------------------------------------------------------------------------

IngestCmds == {"ingest_pdf", "ingest_images"}

DerivativeCmdSet == {"get_thumbnail_url", "get_preview_url"}

IngestionResult(file_id, document_id, page_count, image_chunk_count) ==
    [tag |-> "Ok", kind |-> "ingest", key |-> NoKey, src |-> <<>>, n |-> page_count,
     file_id |-> file_id, document_id |-> document_id, page_count |-> page_count,
     image_chunk_count |-> image_chunk_count]

\* The rows a transaction has inserted and not yet committed
NoTx == [file |-> {}, document |-> NoRows, pages |-> NoRows, chunks |-> NoRows]

\* The transaction of handler h is dropped without commit: it is rolled back
Rollback(h) == [db EXCEPT !.tx = [o \in DOMAIN db.tx \ {h} |-> db.tx[o]]]

\* nextval of the serial id of table t
NextVal(t) == db.seq[t] + 1

\* The command is invoked: ingest_images validates file_paths, then the
\* pool is read
IngestStart(h, cmd, input) ==
    /\ ncalls < MaxCalls
    /\ hs[h].pc \in {"idle", "done"}
    /\ ncalls' = ncalls + 1
    /\ LET r == [Idle EXCEPT !.cmd = cmd, !.arg = Len(input), !.input = input,
                             !.pool = conn.pool.s, !.prev = Summary(hs[h])]
       IN IF cmd = "ingest_images" /\ input = <<>>
          THEN hs' = [hs EXCEPT ![h] = Finish(r, Err("ImageError"))]
          ELSE IF ~conn.pool.some
          THEN hs' = [hs EXCEPT ![h] = Finish(r, Err("NotConnected"))]
          ELSE hs' = [hs EXCEPT ![h] = [r EXCEPT !.pc = "ing_render"]]
    /\ UNCHANGED <<disk, storeVars, cacheMgr, lock, conn, pages, chunks, db, srcFiles>>

\* spawn_blocking(process_pdf) / spawn_blocking(load_image_as_png ...)
\* returns: an error when a page could not be rendered or decoded
IngRender(h) ==
    /\ hs[h].pc = "ing_render"
    /\ LET r == hs[h]
       IN IF \E i \in 1..Len(r.input) : ~Decodable(r.input[i])
          THEN hs' = [hs EXCEPT ![h] =
                 Finish(r, Err(IF r.cmd = "ingest_pdf" THEN "PdfError" ELSE "ImageError"))]
          ELSE hs' = [hs EXCEPT ![h] = [r EXCEPT !.todo = r.input, !.pc = "ing_begin"]]
    /\ UNCHANGED <<disk, storeVars, cacheMgr, lock, conn, pages, chunks, db, srcFiles, ncalls>>

\* pool.begin()
IngBegin(h, ok) ==
    /\ hs[h].pc = "ing_begin"
    /\ IF ~ok
       THEN /\ hs' = [hs EXCEPT ![h] = Finish(hs[h], Err("Database"))]
            /\ db' = db
       ELSE /\ hs' = [hs EXCEPT ![h].pc =
                        IF hs[h].cmd = "ingest_pdf" THEN "ing_file" ELSE "ing_doc"]
            /\ db' = [db EXCEPT !.tx = (h :> NoTx) @@ db.tx]
    /\ UNCHANGED <<disk, storeVars, cacheMgr, lock, conn, pages, chunks, srcFiles, ncalls>>

\* ingest_pdf: INSERT INTO file ... RETURNING id
IngFile(h, ok) ==
    /\ hs[h].pc = "ing_file"
    /\ IF ~ok
       THEN /\ hs' = [hs EXCEPT ![h] = Finish(hs[h], Err("Database"))]
            /\ db' = Rollback(h)
       ELSE /\ hs' = [hs EXCEPT ![h].file_id = NextVal("file"), ![h].pc = "ing_doc"]
            /\ db' = [db EXCEPT !.seq["file"] = NextVal("file"),
                                !.tx[h].file = @ \cup {NextVal("file")}]
    /\ UNCHANGED <<disk, storeVars, cacheMgr, lock, conn, pages, chunks, srcFiles, ncalls>>

\* INSERT INTO document ... RETURNING id (path: the file id, NULL = 0 for
\* ingest_images)
IngDoc(h, ok) ==
    /\ hs[h].pc = "ing_doc"
    /\ IF ~ok
       THEN /\ hs' = [hs EXCEPT ![h] = Finish(hs[h], Err("Database"))]
            /\ db' = Rollback(h)
       ELSE /\ hs' = [hs EXCEPT ![h].document_id = NextVal("document"),
                                ![h].pc = IF hs[h].todo = <<>> THEN "ing_commit"
                                          ELSE "ing_page"]
            /\ db' = [db EXCEPT !.seq["document"] = NextVal("document"),
                                !.tx[h].document =
                                    (NextVal("document") :> [path |-> hs[h].file_id]) @@ @]
    /\ UNCHANGED <<disk, storeVars, cacheMgr, lock, conn, pages, chunks, srcFiles, ncalls>>

\* INSERT INTO page (page_num, document_id, image_contents, ...) RETURNING id
\* for the next page, page_idx + 1 being its number
IngPage(h, ok) ==
    /\ hs[h].pc = "ing_page"
    /\ LET r == hs[h]
           page_idx == Len(r.input) - Len(r.todo)
           png_bytes == Head(r.todo)
       IN IF ~ok
          THEN /\ hs' = [hs EXCEPT ![h] = Finish(r, Err("Database"))]
               /\ db' = Rollback(h)
          ELSE /\ hs' = [hs EXCEPT ![h].page_id = NextVal("page"), ![h].pc = "ing_chunk"]
               /\ db' = [db EXCEPT !.seq["page"] = NextVal("page"),
                                   !.tx[h].pages =
                                       (NextVal("page") :>
                                          PageRow(r.document_id, page_idx + 1,
                                                  SomeStr(<<"s", ".", "p", "d", "f">>),
                                                  png_bytes)) @@ @]
    /\ UNCHANGED <<disk, storeVars, cacheMgr, lock, conn, pages, chunks, srcFiles, ncalls>>

\* INSERT INTO image_chunk (parent_page, contents, mimetype) RETURNING id;
\* cache_items.push((chunk_id, png_bytes)); image_chunk_count += 1
IngChunk(h, ok) ==
    /\ hs[h].pc = "ing_chunk"
    /\ LET r == hs[h]
           png_bytes == Head(r.todo)
       IN IF ~ok
          THEN /\ hs' = [hs EXCEPT ![h] = Finish(r, Err("Database"))]
               /\ db' = Rollback(h)
          ELSE /\ hs' = [hs EXCEPT ![h] =
                         [r EXCEPT !.todo = Tail(r.todo),
                                   !.cache_items = Append(@, <<NextVal("image_chunk"), png_bytes>>),
                                   !.generated = @ + 1,
                                   !.pc = IF Tail(r.todo) = <<>> THEN "ing_commit"
                                          ELSE "ing_page"]]
               /\ db' = [db EXCEPT !.seq["image_chunk"] = NextVal("image_chunk"),
                                   !.tx[h].chunks =
                                       (NextVal("image_chunk") :>
                                          ChunkRow(r.page_id, png_bytes)) @@ @]
    /\ UNCHANGED <<disk, storeVars, cacheMgr, lock, conn, pages, chunks, srcFiles, ncalls>>

\* Mutant of IngCommit: a failed commit leaves the rows in the tables.
IngCommitMutKept(h, ok) ==
    /\ hs[h].pc = "ing_commit"
    /\ hs' = [hs EXCEPT ![h] = IF ok THEN [hs[h] EXCEPT !.pc = "ing_ns"]
                               ELSE Finish(hs[h], Err("Database"))]
    /\ pages' = db.tx[h].pages @@ pages
    /\ chunks' = db.tx[h].chunks @@ chunks
    /\ db' = [Rollback(h) EXCEPT !.file = @ \cup db.tx[h].file,
                                 !.document = db.tx[h].document @@ @]
    /\ UNCHANGED <<disk, storeVars, cacheMgr, lock, conn, srcFiles, ncalls>>

\* tx.commit(): the rows of the transaction become the tables' rows
IngCommit(h, ok) ==
    /\ hs[h].pc = "ing_commit"
    /\ IF ~ok
       THEN /\ hs' = [hs EXCEPT ![h] = Finish(hs[h], Err("Database"))]
            /\ db' = Rollback(h)
            /\ UNCHANGED <<pages, chunks>>
       ELSE /\ hs' = [hs EXCEPT ![h].pc = "ing_ns"]
            /\ pages' = db.tx[h].pages @@ pages
            /\ chunks' = db.tx[h].chunks @@ chunks
            /\ db' = [Rollback(h) EXCEPT !.file = @ \cup db.tx[h].file,
                                         !.document = db.tx[h].document @@ @]
    /\ UNCHANGED <<disk, storeVars, cacheMgr, lock, conn, srcFiles, ncalls>>

\* The result both commands return
IngestOk(r) ==
    Finish(r, IngestionResult(r.file_id, r.document_id, r.arg, r.generated))

\* if let Some(db_name) = state.get_db_identifier().await
IngNamespace(h) ==
    /\ hs[h].pc = "ing_ns"
    /\ LET r == hs[h]
       IN IF ~conn.name.some \/ r.cache_items = <<>>
          THEN hs' = [hs EXCEPT ![h] = IngestOk(r)]
          ELSE hs' = [hs EXCEPT ![h] = [r EXCEPT !.db_name = conn.name.s,
                                                !.pc = "ing_thumb_lock"]]
    /\ UNCHANGED <<disk, storeVars, cacheMgr, lock, conn, pages, chunks, db, srcFiles, ncalls>>

\* let _ = generate_thumbnail(&cache, png_bytes, &db_name, *chunk_id)
IngThumbCS(h, io) ==
    /\ hs[h].pc = "ing_thumb_cs"
    /\ LET r == hs[h]
           item == Head(r.cache_items)
           g == generate(cacheMgr, disk, "thumbnails", item[2], r.db_name, item[1], io)
       IN /\ disk' = g.fs
          /\ hs' = [hs EXCEPT ![h] = [r EXCEPT !.pc = "ing_prev_lock",
                                               !.io = IF io = "ok" THEN @ ELSE io,
                                               !.fault = @ \/ g.res.tag = "Err"]]
    /\ lock' = DropGuard(h)
    /\ UNCHANGED <<storeVars, cacheMgr, conn, pages, chunks, db, srcFiles, ncalls>>

\* Mutant of IngPrevCS: the preview is not generated.
IngPrevCSMutSkip(h, io) ==
    /\ hs[h].pc = "ing_prev_cs"
    /\ LET r1 == [hs[h] EXCEPT !.cache_items = Tail(hs[h].cache_items)]
       IN IF r1.cache_items # <<>>
          THEN hs' = [hs EXCEPT ![h] = [r1 EXCEPT !.pc = "ing_thumb_lock"]]
          ELSE hs' = [hs EXCEPT ![h] = IngestOk(r1)]
    /\ lock' = DropGuard(h)
    /\ UNCHANGED <<disk, storeVars, cacheMgr, conn, pages, chunks, db, srcFiles, ncalls>>

\* let _ = generate_preview(&cache, png_bytes, &db_name, *chunk_id), and
\* the next item; the result is returned after the last one
IngPrevCS(h, io) ==
    /\ hs[h].pc = "ing_prev_cs"
    /\ LET r == hs[h]
           item == Head(r.cache_items)
           g == generate(cacheMgr, disk, "previews", item[2], r.db_name, item[1], io)
           r1 == [r EXCEPT !.cache_items = Tail(r.cache_items),
                           !.io = IF io = "ok" THEN @ ELSE io,
                           !.fault = @ \/ g.res.tag = "Err"]
       IN /\ disk' = g.fs
          /\ IF r1.cache_items # <<>>
             THEN hs' = [hs EXCEPT ![h] = [r1 EXCEPT !.pc = "ing_thumb_lock"]]
             ELSE hs' = [hs EXCEPT ![h] = IngestOk(r1)]
    /\ lock' = DropGuard(h)
    /\ UNCHANGED <<storeVars, cacheMgr, conn, pages, chunks, db, srcFiles, ncalls>>

\* cache.lock() of generate_thumbnail / generate_preview returns Err (the
\* Mutex is poisoned): the helper's error is dropped by `let _ =`
IngLockFailed(h) ==
    /\ hs[h].pc \in {"ing_thumb_lock", "ing_prev_lock"}
    /\ lock = -1
    /\ LET r == [hs[h] EXCEPT !.lock_err = TRUE, !.fault = TRUE]
       IN IF r.pc = "ing_thumb_lock"
          THEN hs' = [hs EXCEPT ![h] = [r EXCEPT !.pc = "ing_prev_lock"]]
          ELSE IF Tail(r.cache_items) # <<>>
          THEN hs' = [hs EXCEPT ![h] = [r EXCEPT !.cache_items = Tail(@),
                                                !.pc = "ing_thumb_lock"]]
          ELSE hs' = [hs EXCEPT ![h] = IngestOk([r EXCEPT !.cache_items = Tail(@)])]
    /\ UNCHANGED <<disk, storeVars, cacheMgr, lock, conn, pages, chunks, db, srcFiles, ncalls>>

\* One step of ingest_pdf / ingest_images in handler h.  A filesystem that
\* failed a write of the warm-up (io) fails the later ones the same way.
IngestStep(h) ==
    \/ IngRender(h)
    \/ \E ok \in BOOLEAN : IngBegin(h, ok)
    \/ \E ok \in BOOLEAN : IngFile(h, ok)
    \/ \E ok \in BOOLEAN : IngDoc(h, ok)
    \/ \E ok \in BOOLEAN : IngPage(h, ok)
    \/ \E ok \in BOOLEAN : IngChunk(h, ok)
    \/ \E ok \in BOOLEAN : IngCommit(h, ok)
    \/ IngNamespace(h)
    \/ \E io \in IoOutcomes : hs[h].io \in {"-", io} /\ IngThumbCS(h, io)
    \/ \E io \in IoOutcomes : hs[h].io \in {"-", io} /\ IngPrevCS(h, io)

\* History kept of an ingest for the call that follows it: the summary of
\* the call and whether a step of its warm-up failed
IngestHistory(r) ==
    IF r.pc = "done"
    THEN [cmd |-> r.cmd, arg |-> r.arg, source |-> r.source.type,
          fetched |-> r.fetched, res |-> r.res, pool |-> r.pool,
          db_name |-> r.db_name, fault |-> r.fault]
    ELSE r.prev

\* The inputs: up to MaxPages pages, page i rendering to the i-th image
\* (counted modulo NumImages) or failing to render
IngestInputs ==
    UNION { [1..n -> {0}] \cup { [i \in 1..n |-> IF i \in F THEN 0
                                                  ELSE ((i - 1) % NumImages) + 1] :
                                  F \in SUBSET (1..n) } : n \in 0..MaxPages }

\* The Mutex is poisoned before the first command (a handler panicked)
PoisonedAtStart == -1

\* The tables after one document of one page was ingested from a PDF
OneDocument ==
    [NoTables EXCEPT !.file = {1}, !.document = (1 :> [path |-> 1]),
                     !.seq = [t \in DOMAIN NoTables.seq |->
                                 IF t = "query" THEN 0 ELSE 1]]

\* The store is available, unavailable, or its Mutex is poisoned; the
\* database is empty or holds one document
IngestInit ==
    /\ \E store \in { <<TRUE, 0>>, <<FALSE, 0>>, <<TRUE, PoisonedAtStart>> } :
          /\ cacheMgr = store[1]
          /\ lock = store[2]
    /\ disk = DiskAfterNew(cacheMgr)
    /\ last = NoCall
    /\ nops = 0
    /\ conn = NotConnected
    /\ \/ /\ db = NoTables
          /\ pages = NoRows
          /\ chunks = NoRows
       \/ /\ db = OneDocument
          /\ pages = (1 :> PageRow(1, 1, SomeStr(<<"s", ".", "p", "d", "f">>), 1))
          /\ chunks = (1 :> ChunkRow(1, 1))
    /\ srcFiles = {}
    /\ hs = [h \in {1} |-> Idle]
    /\ ncalls = 0

IngestNext ==
    \/ Connect(<<"a">>)
    \/ hs[1].pc \in {"idle", "done"} /\ Disconnect
    \/ \E cmd \in IngestCmds, input \in IngestInputs :
          hs[1].pc = "idle" /\ IngestStart(1, cmd, input)
    \/ IngestStep(1)
    \/ Acquire(1)
    \/ IngLockFailed(1)
    \/ \E cmd \in DerivativeCmdSet, page_id \in DOMAIN pages :
          Start(1, cmd, page_id, IngestHistory(hs[1]))
    \/ DerChunk(1)
    \/ DerCheckCS(1)
    \/ DerFetch(1)
    \/ DerGenCS(1, "ok")

SpecIngest == IngestInit /\ [][IngestNext]_vars

\* -------------------------------------------------------------------------
\* Returning: the helper has dropped the MutexGuard and the command's body
\* then returns the value to the caller; other handlers run in between
\* -------------------------------------------------------------------------

\* The command of handler h returns its result to the caller
Return(h) ==
    /\ hs[h].pc = "done"
    /\ hs' = [hs EXCEPT ![h].pc = "idle"]
    /\ UNCHANGED <<disk, storeVars, cacheMgr, lock, conn, pages, chunks, db, srcFiles, ncalls>>

ReturnInit ==
    /\ cacheMgr = TRUE
    /\ disk = DiskAfterNew(cacheMgr)
    /\ last = NoCall
    /\ nops = 0
    /\ lock = 0
    /\ conn = NotConnected
    /\ pages = (1 :> PageRow(1, 1, SomeStr(<<"s", ".", "p", "d", "f">>), 1))
    /\ chunks = (1 :> ChunkRow(1, 1))
    /\ srcFiles = {<<"s", ".", "p", "d", "f">>}
    /\ hs = [h \in Handlers |-> Idle]
    /\ ncalls = 0
    /\ db = NoTables

ReturnNext ==
    \/ Connect(<<"a">>)
    \/ \E h \in Handlers, cmd \in Commands :
          hs[h].pc = "idle" /\ Start(h, cmd, 1, NoPrev)
    \/ \E h \in Handlers : HandlerStep(h)
    \/ \E h \in Handlers : Return(h)

SpecReturn == ReturnInit /\ [][ReturnNext]_vars

\* -------------------------------------------------------------------------
\* Switching: the handler reads the namespace and the pool in two awaits
\* (get_db_identifier, then get_pool), and the user connects to another
\* database in between.  set_connection replaces the pool without closing
\* the old one, and holds the pool's write lock while it writes the name.
\* -------------------------------------------------------------------------

\* The commands that read the namespace and then the pool
PoolCommands == {"get_page_image_url", "get_thumbnail_url", "get_preview_url",
                 "prefetch_document_thumbnails"}

\* state.get_db_identifier().await.ok_or(AppError::NotConnected)?
ReadNamespace(h, cmd, arg) ==
    /\ ncalls < MaxCalls
    /\ hs[h].pc \in {"idle", "done"}
    /\ ncalls' = ncalls + 1
    /\ LET r == [Idle EXCEPT !.cmd = cmd, !.arg = arg, !.db_name = conn.name.s]
       IN IF ~conn.name.some
          THEN hs' = [hs EXCEPT ![h] = Finish(r, Err("NotConnected"))]
          ELSE hs' = [hs EXCEPT ![h] = [r EXCEPT !.pc = "get_pool"]]
    /\ UNCHANGED <<disk, storeVars, cacheMgr, lock, conn, pages, chunks, db, srcFiles>>

\* state.get_pool().await.ok_or(AppError::NotConnected)?
ReadPool(h) ==
    /\ hs[h].pc = "get_pool"
    /\ LET r == [hs[h] EXCEPT !.pool = conn.pool.s]
       IN IF ~conn.pool.some
          THEN hs' = [hs EXCEPT ![h] = Finish(r, Err("NotConnected"))]
          ELSE hs' = [hs EXCEPT ![h] =
                 CASE r.cmd = "get_page_image_url" -> [r EXCEPT !.pc = "full_info"]
                   [] r.cmd = "get_thumbnail_url" ->
                        [r EXCEPT !.pc = "der_chunk", !.tier = "thumbnails"]
                   [] r.cmd = "get_preview_url" ->
                        [r EXCEPT !.pc = "der_chunk", !.tier = "previews"]
                   [] r.cmd = "prefetch_document_thumbnails" ->
                        [r EXCEPT !.pc = "pf_rows", !.tier = "thumbnails"]]
    /\ UNCHANGED <<disk, storeVars, cacheMgr, lock, conn, pages, chunks, db, srcFiles, ncalls>>

SwitchNames == { <<"a">>, <<"b">> }

SwitchInit ==
    /\ cacheMgr = TRUE
    /\ disk = DiskAfterNew(cacheMgr)
    /\ last = NoCall
    /\ nops = 0
    /\ lock = 0
    /\ conn = NotConnected
    /\ pages = (1 :> PageRow(1, 1, SomeStr(<<"s", ".", "p", "d", "f">>), 1))
    /\ chunks = (1 :> ChunkRow(1, 1))
    /\ srcFiles \in { {}, {<<"s", ".", "p", "d", "f">>} }
    /\ hs = [h \in {1} |-> Idle]
    /\ ncalls = 0
    /\ db = NoTables

\* One step of a command that uses the pool
SwitchStep(h) ==
    \/ Acquire(h)
    \/ FullInfo(h)
    \/ FullCheckCS(h)
    \/ \E out \in {NoBytes} \cup (1..NumImages) : FullRender(h, out)
    \/ FullFetch(h)
    \/ \E io \in IoOutcomes : FullSaveCS(h, io)
    \/ DerChunk(h)
    \/ DerCheckCS(h)
    \/ DerFetch(h)
    \/ \E io \in IoOutcomes : DerGenCS(h, io)
    \/ PfRows(h)
    \/ PfHasCS(h)
    \/ PfFetch(h)
    \/ \E io \in IoOutcomes : PfGenCS(h, io)

SwitchNext ==
    \/ \E database \in SwitchNames : Connect(database)
    \/ \E cmd \in PoolCommands : ReadNamespace(1, cmd, 1)
    \/ ReadPool(1)
    \/ SwitchStep(1)

SpecSwitch == SwitchInit /\ [][SwitchNext]_vars

\* -------------------------------------------------------------------------
\* Sessions: connect_database and disconnect_database run as commands next
\* to the cache commands.  set_connection and clear_connection keep the
\* write guard of the pool's RwLock until they return, the name being
\* written while it is held.
\* -------------------------------------------------------------------------

\* A handler holds the write guard of AppState::pool
PoolLocked == \E h \in DOMAIN hs : hs[h].pc \in {"conn_name", "disc_name"}

\* connect_database: create_pool and the connection test succeeded;
\* set_connection takes the pool's write guard and stores the pool
SetPool(h, database) ==
    /\ ncalls < MaxCalls
    /\ hs[h].pc \in {"idle", "done"}
    /\ ~PoolLocked
    /\ ncalls' = ncalls + 1
    /\ conn' = [conn EXCEPT !.pool = SomeStr(database)]
    /\ hs' = [hs EXCEPT ![h] = [Idle EXCEPT !.cmd = "connect_database",
                                             !.pool = database,
                                             !.db_name = sanitize_for_path(database),
                                             !.pc = "conn_name"]]
    /\ UNCHANGED <<disk, storeVars, cacheMgr, lock, pages, chunks, db, srcFiles>>

\* set_connection stores the name and returns
SetName(h) ==
    /\ hs[h].pc = "conn_name"
    /\ conn' = [conn EXCEPT !.name = SomeStr(hs[h].db_name)]
    /\ hs' = [hs EXCEPT ![h] = Finish(hs[h], OkUnit)]
    /\ UNCHANGED <<disk, storeVars, cacheMgr, lock, pages, chunks, db, srcFiles, ncalls>>

\* disconnect_database: clear_connection takes the pool's write guard,
\* takes the pool out and closes it
TakePool(h) ==
    /\ ncalls < MaxCalls
    /\ hs[h].pc \in {"idle", "done"}
    /\ ~PoolLocked
    /\ ncalls' = ncalls + 1
    /\ conn' = [conn EXCEPT !.pool = NoneStr]
    /\ hs' = [hs EXCEPT ![h] = [Idle EXCEPT !.cmd = "disconnect_database",
                                             !.pc = "disc_name"]]
    /\ UNCHANGED <<disk, storeVars, cacheMgr, lock, pages, chunks, db, srcFiles>>

\* Mutant of ClearName: the name is left as it is.
ClearNameMutKept(h) ==
    /\ hs[h].pc = "disc_name"
    /\ conn' = conn
    /\ hs' = [hs EXCEPT ![h] = Finish(hs[h], OkUnit)]
    /\ UNCHANGED <<disk, storeVars, cacheMgr, lock, pages, chunks, db, srcFiles, ncalls>>

\* clear_connection clears the name and returns
ClearName(h) ==
    /\ hs[h].pc = "disc_name"
    /\ conn' = [conn EXCEPT !.name = NoneStr]
    /\ hs' = [hs EXCEPT ![h] = Finish(hs[h], OkUnit)]
    /\ UNCHANGED <<disk, storeVars, cacheMgr, lock, pages, chunks, db, srcFiles, ncalls>>

SessionInit ==
    /\ cacheMgr = TRUE
    /\ disk = DiskAfterNew(cacheMgr)
    /\ last = NoCall
    /\ nops = 0
    /\ lock = 0
    /\ conn = NotConnected
    /\ pages = (1 :> PageRow(1, 1, SomeStr(<<"s", ".", "p", "d", "f">>), 1))
    /\ chunks = (1 :> ChunkRow(1, 1))
    /\ srcFiles = {<<"s", ".", "p", "d", "f">>}
    /\ hs = [h \in Handlers |-> Idle]
    /\ ncalls = 0
    /\ db = NoTables

SessionNext ==
    \/ \E h \in Handlers : SetPool(h, <<"a">>)
    \/ \E h \in Handlers : SetName(h)
    \/ \E h \in Handlers : TakePool(h)
    \/ \E h \in Handlers : ClearName(h)
    \/ \E h \in Handlers, cmd \in Commands : Start(h, cmd, 1, NoPrev)
    \/ \E h \in Handlers : HandlerStep(h)

SpecSession == SessionInit /\ [][SessionNext]_vars

\* -------------------------------------------------------------------------
\* Workspaces: one handler, the connection changing between its calls
\* -------------------------------------------------------------------------

\* Database names of the configurations the user connects with
WorkspaceNames == { <<"a", ".">>, <<"a", "_">>, <<"b", "-">> }

WorkspaceInit ==
    /\ cacheMgr = TRUE
    /\ disk = DiskAfterNew(cacheMgr)
    /\ last = NoCall
    /\ nops = 0
    /\ lock = 0
    /\ conn = NotConnected
    /\ pages = (1 :> PageRow(1, 1, SomeStr(<<"s", ".", "p", "d", "f">>), 1))
    /\ chunks = (1 :> ChunkRow(1, 1))
    /\ srcFiles \in { {}, {<<"s", ".", "p", "d", "f">>} }
    /\ hs = [h \in {1} |-> Idle]
    /\ ncalls = 0
    /\ db = NoTables

WorkspaceNext ==
    \/ \E database \in WorkspaceNames :
          hs[1].pc \in {"idle", "done"} /\ Connect(database)
    \/ hs[1].pc \in {"idle", "done"} /\ Disconnect
    \/ \E cmd \in Commands : Start(1, cmd, 1, Summary(hs[1]))
    \/ HandlerStep(1)

SpecWorkspace == WorkspaceInit /\ [][WorkspaceNext]_vars

\* -------------------------------------------------------------------------
\* Classification: get_page_image_url on one page whose origin file comes
\* and goes between and during the calls
\* -------------------------------------------------------------------------

\* The origin-file hints of the page
ClassifyHints ==
    { NoneStr,
      SomeStr(<<>>),
      SomeStr(<<"s", ".", "p", "d", "f">>),
      SomeStr(<<"s", ".", "P", "d", "F">>),
      SomeStr(<<"s", ".", "p", "n", "g">>),
      SomeStr(<<"s", ".", "J", "P", "G">>),
      SomeStr(<<"s", ".", "j", "p", "e", "g">>),
      SomeStr(<<"s", ".", "W", "e", "b", "p">>),
      SomeStr(<<"s", ".", "t", "x", "t">>),
      SomeStr(<<"s">>),
      SomeStr(<<"p", "d", "f">>),
      SomeStr(<<"a", ".", "p", "d", "f", "/", "s">>),
      SomeStr(<<"s", ".", "p", "d", "f", ".", "t", "x", "t">>),
      SomeStr(<<"s", ".", "t", "x", "t", ".", "p", "n", "g">>) }

ClassifyInit ==
    /\ cacheMgr = TRUE
    /\ disk = DiskAfterNew(cacheMgr)
    /\ last = NoCall
    /\ nops = 0
    /\ lock = 0
    /\ conn = NotConnected
    /\ \E hint \in ClassifyHints : pages = (1 :> PageRow(1, 1, hint, 1))
    /\ chunks = (1 :> ChunkRow(1, 1))
    /\ srcFiles = {}
    /\ hs = [h \in {1} |-> Idle]
    /\ ncalls = 0
    /\ db = NoTables

\* The file the hint of page 1 names is created
SourceAppears ==
    /\ pages[1].source_path.some
    /\ pages[1].source_path.s # <<>>
    /\ srcFiles = {}
    /\ srcFiles' = {pages[1].source_path.s}
    /\ UNCHANGED <<disk, storeVars, cacheMgr, lock, conn, pages, chunks, db, hs, ncalls>>

\* The file the hint of page 1 names is removed
SourceVanishes ==
    /\ srcFiles # {}
    /\ srcFiles' = {}
    /\ UNCHANGED <<disk, storeVars, cacheMgr, lock, conn, pages, chunks, db, hs, ncalls>>

\* One step of get_page_image_url in handler h
FullImageStep(h) ==
    \/ Acquire(h)
    \/ FullInfo(h)
    \/ FullCheckCS(h)
    \/ \E out \in {NoBytes} \cup (1..NumImages) : FullRender(h, out)
    \/ FullFetch(h)
    \/ \E io \in IoOutcomes : FullSaveCS(h, io)

ClassifyNext ==
    \/ Connect(<<"a">>)
    \/ SourceAppears
    \/ SourceVanishes
    \/ Start(1, "get_page_image_url", 1, Summary(hs[1]))
    \/ FullImageStep(1)

SpecClassify == ClassifyInit /\ [][ClassifyNext]_vars

\* -------------------------------------------------------------------------
\* Prefetch: a document of 1..MaxPages pages, one chunk per page
\* -------------------------------------------------------------------------

\* The id of the chunk of page p (chunk ids descend as page ids ascend)
ChunkOf(p) == 10 * (MaxPages + 1 - p)

PrefetchInit(H) ==
    /\ cacheMgr = TRUE
    /\ disk = DiskAfterNew(cacheMgr)
    /\ last = NoCall
    /\ nops = 0
    /\ lock = 0
    /\ conn = NotConnected
    /\ \E n \in 1..MaxPages :
          /\ pages = [p \in 1..n |-> PageRow(1, p, NoneStr, 1)]
          /\ chunks = [c \in { ChunkOf(p) : p \in 1..n } |->
                          ChunkRow(MaxPages + 1 - (c \div 10), 1)]
    /\ srcFiles = {}
    /\ hs = [h \in H |-> Idle]
    /\ ncalls = 0
    /\ db = NoTables

\* One step of get_thumbnail_url or prefetch_document_thumbnails in handler h
PrefetchStep(h) ==
    \/ Acquire(h)
    \/ DerChunk(h)
    \/ DerCheckCS(h)
    \/ DerFetch(h)
    \/ \E io \in IoOutcomes : DerGenCS(h, io)
    \/ PfRows(h)
    \/ PfHasCS(h)
    \/ PfFetch(h)
    \/ \E io \in IoOutcomes : PfGenCS(h, io)

\* One handler, one call after the other
PrefetchSeqNext ==
    \/ Connect(<<"a">>)
    \/ Start(1, "prefetch_document_thumbnails", 1, Summary(hs[1]))
    \/ \E page_id \in 1..MaxPages : Start(1, "get_thumbnail_url", page_id, Summary(hs[1]))
    \/ PrefetchStep(1)

PrefetchSeqInit == PrefetchInit({1})

SpecPrefetch == PrefetchSeqInit /\ [][PrefetchSeqNext]_vars

\* Two handlers running concurrently
PrefetchRaceNext ==
    \/ Connect(<<"a">>)
    \/ \E h \in Handlers : Start(h, "prefetch_document_thumbnails", 1, NoPrev)
    \/ \E h \in Handlers, page_id \in 1..MaxPages :
          Start(h, "get_thumbnail_url", page_id, NoPrev)
    \/ \E h \in Handlers : PrefetchStep(h)

PrefetchRaceInit == PrefetchInit(Handlers)

SpecPrefetchRace == PrefetchRaceInit /\ [][PrefetchRaceNext]_vars

\* -------------------------------------------------------------------------
\* Poisoned lock: a handler may panic while it holds the MutexGuard, which
\* poisons the Mutex; every later lock() returns Err
\* -------------------------------------------------------------------------

\* The value of lock when the Mutex is poisoned
Poisoned == -1

\* The thread of handler h panics inside a helper's body
Panic(h) ==
    /\ lock = h
    /\ lock' = Poisoned
    /\ hs' = [hs EXCEPT ![h].pc = "panicked"]
    /\ UNCHANGED <<disk, storeVars, cacheMgr, conn, pages, chunks, db, srcFiles, ncalls>>

\* cache.lock() returns Err: the helper returns AppError::Cache.  The
\* commands propagate it with `?`, except prefetch_document_thumbnails, whose
\* filter keeps the chunk id as uncached and whose loop does not count the
\* chunk.
LockFailed(h) ==
    /\ hs[h].pc \in DOMAIN CsOf
    /\ lock = Poisoned
    /\ LET r == [hs[h] EXCEPT !.lock_err = TRUE]
       IN CASE r.pc = "pf_has_lock" ->
                 LET r1 == [r EXCEPT !.todo = Tail(r.todo),
                                     !.uncached = Append(r.uncached, Head(r.todo))]
                 IN IF r1.todo # <<>>
                    THEN hs' = [hs EXCEPT ![h] = r1]
                    ELSE hs' = [hs EXCEPT ![h] = [r1 EXCEPT !.pc = "pf_fetch"]]
            [] r.pc = "pf_gen_lock" ->
                 LET r1 == [r EXCEPT !.chunk_rows = Tail(r.chunk_rows)]
                 IN IF r1.chunk_rows # <<>>
                    THEN hs' = [hs EXCEPT ![h] = r1]
                    ELSE hs' = [hs EXCEPT ![h] = Finish(r1, OkNum(r1.generated))]
            [] OTHER -> hs' = [hs EXCEPT ![h] = Finish(r, Err("Cache"))]
    /\ UNCHANGED <<disk, storeVars, cacheMgr, lock, conn, pages, chunks, db, srcFiles, ncalls>>

PoisonInit ==
    /\ cacheMgr = TRUE
    /\ disk = DiskAfterNew(cacheMgr)
    /\ last = NoCall
    /\ nops = 0
    /\ lock = 0
    /\ conn = NotConnected
    /\ pages = (1 :> PageRow(1, 1, SomeStr(<<"s", ".", "p", "d", "f">>), 1))
    /\ chunks = (1 :> ChunkRow(1, 1))
    /\ srcFiles = {<<"s", ".", "p", "d", "f">>}
    /\ hs = [h \in {1} |-> Idle]
    /\ ncalls = 0
    /\ db = NoTables

PoisonNext ==
    \/ Connect(<<"a">>)
    \/ \E cmd \in Commands : Start(1, cmd, 1, NoPrev)
    \/ HandlerStep(1)
    \/ Panic(1)
    \/ LockFailed(1)

SpecPoison == PoisonInit /\ [][PoisonNext]_vars

\* -------------------------------------------------------------------------
\* Resizing: images of many dimensions stored into an empty cache, the
\* cache being cleared in between
\* -------------------------------------------------------------------------

ImageSides ==
    (1..MaxSide) \cup
    { k * size + e : k \in 1..MaxSide, size \in {THUMBNAIL_SIZE, PREVIEW_SIZE},
                     e \in {-1, 0, 1} }

ResizeImages == { ImageOf(w, h) : w \in ImageSides, h \in ImageSides }

ResizeInit ==
    /\ disk = NewDisk
    /\ last = NoCall
    /\ nops = 0
    /\ cacheMgr = TRUE
    /\ lock = 0
    /\ conn = NotConnected
    /\ pages = NoRows
    /\ chunks = NoRows
    /\ srcFiles = {}
    /\ hs = NoRows
    /\ ncalls = 0
    /\ db = NoTables

ResizeStore ==
    /\ DOMAIN disk.files = {}
    /\ \E tier \in StoreTiers, b \in ResizeImages, io \in {"ok", "write_err"} :
          StoreDerivative(tier, <<"a">>, 1, b, io)

ResizeNext ==
    \/ ResizeStore
    \/ ClearAll

SpecResize == ResizeInit /\ [][ResizeNext]_vars

\* -------------------------------------------------------------------------
\* Connections: connect_database and disconnect_database with every
\* database name of up to MaxNameLen characters
\* -------------------------------------------------------------------------

NameChars == {"a", "A", "1", "-", "_", "."}

DatabaseNames == UNION { [1..n -> NameChars] : n \in 0..MaxNameLen }

ConnectionInit ==
    /\ cacheMgr = TRUE
    /\ disk = DiskAfterNew(cacheMgr)
    /\ last = NoCall
    /\ nops = 0
    /\ lock = 0
    /\ conn = NotConnected
    /\ pages = NoRows
    /\ chunks = NoRows
    /\ srcFiles = {}
    /\ hs = NoRows
    /\ ncalls = 0
    /\ db = NoTables

ConnectionNext ==
    \/ \E database \in DatabaseNames : Connect(database)
    \/ Disconnect

SpecConnection == ConnectionInit /\ [][ConnectionNext]_vars

\* -------------------------------------------------------------------------
\* Derivatives: get_thumbnail_url and get_preview_url, one call after the
\* other, on a page with two chunks and a page with none
\* -------------------------------------------------------------------------

DerivativeInit ==
    /\ cacheMgr = TRUE
    /\ disk = DiskAfterNew(cacheMgr)
    /\ last = NoCall
    /\ nops = 0
    /\ lock = 0
    /\ conn = NotConnected
    /\ pages = [p \in {1, 2} |-> PageRow(1, p, NoneStr, 1)]
    /\ chunks = [c \in {3, 5} |-> ChunkRow(1, IF c = 3 THEN NumImages ELSE 1)]
    /\ srcFiles = {}
    /\ hs = [h \in {1} |-> Idle]
    /\ ncalls = 0
    /\ db = NoTables

\* One step of get_thumbnail_url or get_preview_url in handler h
DerivativeStep(h) ==
    \/ Acquire(h)
    \/ DerChunk(h)
    \/ DerCheckCS(h)
    \/ DerFetch(h)
    \/ \E io \in IoOutcomes : DerGenCS(h, io)

DerivativeNext ==
    \/ Connect(<<"a">>)
    \/ \E cmd \in {"get_thumbnail_url", "get_preview_url"}, page_id \in {1, 2} :
          Start(1, cmd, page_id, Summary(hs[1]))
    \/ DerivativeStep(1)

SpecDerivative == DerivativeInit /\ [][DerivativeNext]_vars

\* -------------------------------------------------------------------------
\* Properties of the command handlers
\* -------------------------------------------------------------------------

ResolveCmds == {"get_page_image_url", "get_thumbnail_url", "get_preview_url"}

\* The cache entry a resolution call is about, and what a store-write of
\* the bytes it obtained produces
EntryKey(r) ==
    IF r.cmd = "get_page_image_url" THEN original_path(r.db_name, r.arg)
    ELSE TierPath(r.tier, r.db_name, r.chunk_id)

Output(r) ==
    IF r.cmd = "get_page_image_url" THEN Verbatim(r.bytes)
    ELSE WebP(r.bytes, TierSize(r.tier))

\* C2: no handler that is suspended at a database round-trip or at the
\* render wait holds the store lock, and the lock is only ever held by a
\* handler that is inside a helper's body.
C2_NoLockAcrossAwait ==
    /\ \A h \in DOMAIN hs : hs[h].pc \in AwaitPcs => lock # h
    /\ lock # 0 => hs[lock].pc \in { CsOf[p] : p \in DOMAIN CsOf }

\* A handler that took and released the lock for its cache check waits for
\* the render while another handler holds the lock.
C2_Witness ==
    \E h \in DOMAIN hs, o \in DOMAIN hs :
        /\ h # o
        /\ hs[h].pc = "full_render"
        /\ lock = o

\* Handlers h and o have completed resolutions of the same entry that both
\* missed the cache while the other was in flight, and neither store-write
\* met an I/O fault.
Raced(h, o) ==
    /\ h # o
    /\ hs[h].pc = "done" /\ hs[o].pc = "done"
    /\ hs[h].cmd \in ResolveCmds
    /\ hs[o].cmd = hs[h].cmd /\ hs[o].arg = hs[h].arg /\ hs[o].db_name = hs[h].db_name
    /\ hs[h].rival /\ hs[o].rival
    /\ hs[h].io \in {"ok", "skip"} /\ hs[o].io \in {"ok", "skip"}

\* C3: two concurrent resolutions of the same id that both miss the cache
\* both fetch (or render), both return Ok with the same path, exactly one of
\* the two store-writes creates the entry, and the entry holds the output of
\* that first write: the later one leaves it as it is.
C3_ConcurrentMiss ==
    \A h \in DOMAIN hs, o \in DOMAIN hs :
        Raced(h, o) =>
            LET key == EntryKey(hs[h])
            IN /\ hs[h].res = OkPath(key)
               /\ hs[o].res = OkPath(key)
               /\ hs[h].fetched \/ hs[h].render = "ok"
               /\ hs[o].fetched \/ hs[o].render = "ok"
               /\ (hs[h].io = "ok") # (hs[o].io = "ok")
               /\ FileExists(disk, key)
               /\ { k \in DOMAIN disk.files : k[1] = key[1] /\ k[2] = key[2] } = {key}
               /\ hs[h].io = "ok" => disk.files[key] = Output(hs[h])
               /\ hs[o].io = "ok" => disk.files[key] = Output(hs[o])

\* Two get_thumbnail_url calls for the same page raced and are both done.
C3_Witness ==
    \E h \in DOMAIN hs, o \in DOMAIN hs :
        Raced(h, o) /\ hs[h].cmd = "get_thumbnail_url" /\ hs[h].io = "skip"

\* The classification of a page's origin-file hint, from the page row
HintExt(p) == to_ascii_lowercase(extension(pages[p].source_path.s).s)

HintUsable(p) ==
    /\ pages[p].source_path.some
    /\ pages[p].source_path.s \in srcFiles
    /\ extension(pages[p].source_path.s).some

IsDirect(p) ==
    HintUsable(p) /\ HintExt(p) \in { <<"p","n","g">>, <<"j","p","g">>,
                                      <<"j","p","e","g">>, <<"w","e","b","p">> }

IsRenderable(p) == HintUsable(p) /\ HintExt(p) = <<"p","d","f">>

C5_FallbackThenHit ==
    \A h \in DOMAIN hs :
        LET r == hs[h]
        IN (r.pc = "done" /\ r.cmd = "get_page_image_url") =>
           /\ (r.fetched /\ r.res.tag = "Ok") =>
                 /\ r.res = OkPath(original_path(r.db_name, r.arg))
                 /\ FileExists(disk, r.res.key)
                 /\ disk.files[r.res.key] = Verbatim(pages[r.arg].image_contents)
           /\ ( /\ r.prev.cmd = "get_page_image_url"
                /\ r.prev.arg = r.arg
                /\ r.prev.fetched
                /\ r.prev.res.tag = "Ok" )
              => /\ r.res = r.prev.res
                 /\ r.exists
                 /\ ~r.fetched
                 /\ FileExists(disk, r.res.key)

\* The hint of the page names a missing file, the first call fell back to
\* the binary column, and the second call for the page is done.
C5_Witness ==
    \E h \in DOMAIN hs :
        /\ hs[h].pc = "done"
        /\ hs[h].cmd = "get_page_image_url"
        /\ hs[h].prev.cmd = "get_page_image_url"
        /\ hs[h].prev.arg = hs[h].arg
        /\ hs[h].prev.fetched
        /\ hs[h].prev.res.tag = "Ok"
        /\ pages[hs[h].arg].source_path.some
        /\ pages[hs[h].arg].source_path.s \notin srcFiles
        /\ hs[h].res.tag = "Ok"

\* The origin data of the request exists: a usable source file or the binary
\* column for a page, the first chunk for a derivative
OriginExists(r) ==
    IF r.cmd = "get_page_image_url"
    THEN /\ r.arg \in DOMAIN pages
         /\ IsDirect(r.arg) \/ pages[r.arg].image_contents # NoBytes
    ELSE FirstChunk(r.arg) # 0

\* C6: when the CacheManager could not be constructed, the three resolution
\* commands, on a connected database, still succeed for every page whose
\* origin data exists.
C6_StoreUnavailable ==
    \A h \in DOMAIN hs :
        ( /\ hs[h].pc = "done"
          /\ hs[h].cmd \in ResolveCmds
          /\ ~cacheMgr
          /\ hs[h].res # Err("NotConnected")
          /\ OriginExists(hs[h]) )
        => hs[h].res.tag = "Ok"

\* C7: on a connected database, get_page_image_url of an existing page
\* returns an error only after
\* every tier was tried, that is, after the final binary fallback was
\* attempted.
C7_OnlyExhaustionFails ==
    \A h \in DOMAIN hs :
        ( /\ hs[h].pc = "done"
          /\ hs[h].cmd = "get_page_image_url"
          /\ hs[h].arg \in DOMAIN pages
          /\ hs[h].res.tag = "Err"
          /\ hs[h].res # Err("NotConnected") )
        => hs[h].fetched

\* C10: after clear_all the total size is 0, no path that existed before
\* exists, and both tier directories exist and are empty.
C10_FullClearResets ==
    [][ (last'.op = "clear_all" /\ nops' = nops + 1) =>
            /\ get_cache_size(disk') = 0
            /\ \A k \in DOMAIN disk.files : ~FileExists(disk', k)
            /\ \A tier \in StoreTiers :
                  /\ DirExists(disk', Join(cache_dir, tier))
                  /\ \A d \in disk'.dirs :
                        IsPrefix(Join(cache_dir, tier), d) => d = Join(cache_dir, tier)
      ]_vars

DerivativeCmds == {"get_thumbnail_url", "get_preview_url"}

\* C11: two thumbnail or preview resolutions made while connected to
\* distinct databases never use the same cache namespace and never return
\* the same cache path.
C11_WorkspacesNeverCollide ==
    \A h \in DOMAIN hs :
        LET r == hs[h]
        IN ( /\ r.pc = "done"
             /\ r.cmd \in DerivativeCmds /\ r.prev.cmd \in DerivativeCmds
             /\ r.res # Err("NotConnected") /\ r.prev.res # Err("NotConnected")
             /\ r.pool # r.prev.pool )
           => /\ r.db_name # r.prev.db_name
              /\ (r.res.tag = "Ok" /\ r.res.kind = "path") => r.res # r.prev.res

\* What the classifier contract gives for each hint when the file exists
ContractClass(hint) ==
    IF hint \in { <<"s", ".", "p", "d", "f">>, <<"s", ".", "P", "d", "F">> }
    THEN "Pdf"
    ELSE IF hint \in { <<"s", ".", "p", "n", "g">>, <<"s", ".", "J", "P", "G">>,
                       <<"s", ".", "j", "p", "e", "g">>, <<"s", ".", "W", "e", "b", "p">>,
                       <<"s", ".", "t", "x", "t", ".", "p", "n", "g">> }
    THEN "Image"
    ELSE "None"

\* C12: every classification made by get_page_image_url is Direct image,
\* Renderable document or Unavailable exactly as the contract says for the
\* hint and for the existence of the file at the time of the call,
\* whatever was classified before.
C12_ClassifierContract ==
    [][ \A h \in DOMAIN hs :
          (hs[h].pc = "full_info" /\ hs'[h].pc # "full_info" /\ hs[h].arg \in DOMAIN pages)
          => LET hint == pages[hs[h].arg].source_path
                 class == IF hint.some /\ hint.s # <<>> /\ hint.s \in srcFiles
                          THEN ContractClass(hint.s) ELSE "None"
             IN /\ hs'[h].source.type = class
                /\ hs'[h].source.path = (IF class = "None" THEN <<>> ELSE hint.s)
      ]_vars

\* The same page was classified Unavailable by one call and, the file having
\* appeared, Renderable by the next.
C12_Witness ==
    \E h \in DOMAIN hs :
        /\ hs[h].cmd = "get_page_image_url"
        /\ hs[h].source.type = "Pdf"
        /\ hs[h].prev.cmd = "get_page_image_url"
        /\ hs[h].prev.arg = hs[h].arg
        /\ hs[h].prev.source = "None"
        /\ hs[h].prev.res.tag = "Ok"

\* The first-chunk ids of document 1
DocChunks == FirstChunksOfDocument(1)

\* C13: with one decodable chunk per page, a prefetch that found no chunk
\* cached and met no I/O fault returns the number of pages and leaves a
\* thumbnail for every chunk; the prefetch that directly follows a prefetch
\* that returned the number of pages returns 0 and fetches nothing.
C13_PrefetchCompleteness ==
    \A h \in DOMAIN hs :
        LET r == hs[h]
        IN ( /\ r.pc = "done"
             /\ r.cmd = "prefetch_document_thumbnails"
             /\ r.res # Err("NotConnected") )
           => /\ (Len(r.uncached) = Len(DocChunks) /\ ~r.fault)
                 => /\ r.res = OkNum(Len(pages))
                    /\ \A p \in DOMAIN pages :
                          /\ has_thumbnail(disk, r.db_name, ChunkOf(p))
                          /\ disk.files[thumbnail_path(r.db_name, ChunkOf(p))]
                                = WebP(chunks[ChunkOf(p)].contents, THUMBNAIL_SIZE)
              /\ (r.prev.cmd = "prefetch_document_thumbnails"
                     /\ r.prev.res = OkNum(Len(pages)))
                 => /\ r.res = OkNum(0)
                    /\ ~r.fetched

\* A document of MaxPages pages was prefetched completely, and prefetched
\* again.
C13_Witness ==
    \E h \in DOMAIN hs :
        /\ hs[h].pc = "done"
        /\ hs[h].cmd = "prefetch_document_thumbnails"
        /\ hs[h].prev.cmd = "prefetch_document_thumbnails"
        /\ Len(pages) = MaxPages
        /\ hs[h].prev.res = OkNum(MaxPages)
        /\ hs[h].res = OkNum(0)

\* C14: the count a prefetch returns is the number of thumbnail files that
\* this call brought into existence.
C14_CountsNewlyGenerated ==
    \A h \in DOMAIN hs :
        ( /\ hs[h].pc = "done"
          /\ hs[h].cmd = "prefetch_document_thumbnails"
          /\ hs[h].res.tag = "Ok" )
        => hs[h].res.n = hs[h].created

\* C15: get_thumbnail_url / get_preview_url of a page without chunks fail
\* with NotFound; otherwise they work on the page's smallest chunk id: the
\* cache check reports a hit exactly when the entry of that chunk exists in
\* the tier; on a hit the entry's path is returned and nothing is fetched;
\* on a miss that chunk's bytes are fetched, and when the write meets no I/O
\* fault the entry holds their derivative of max dimension 200 (thumbnail)
\* or 1200 (preview) and its path is returned.
C15_DerivativeByFirstChunk ==
    /\ [](\A h \in DOMAIN hs :
            LET r == hs[h]
                C == { c \in DOMAIN chunks : chunks[c].parent_page = r.arg }
                c == CHOOSE x \in C : \A y \in C : x <= y
                dir == IF r.cmd = "get_thumbnail_url" THEN "thumbnails" ELSE "previews"
                D == IF r.cmd = "get_thumbnail_url" THEN 200 ELSE 1200
                key == << <<dir, r.db_name>>, c, "webp" >>
            IN ( /\ r.pc = "done"
                 /\ r.cmd \in DerivativeCmds
                 /\ r.res # Err("NotConnected") )
               => IF C = {}
                  THEN r.res = Err("NotFound") /\ ~r.fetched
                  ELSE /\ r.chunk_id = c
                       /\ r.exists => (r.res = OkPath(key) /\ ~r.fetched)
                       /\ ~r.exists =>
                             /\ r.fetched
                             /\ r.bytes = chunks[c].contents
                             /\ r.io = "ok" =>
                                   /\ r.res = OkPath(key)
                                   /\ FileExists(disk, key)
                                   /\ disk.files[key] = WebP(chunks[c].contents, D))
    /\ [][ \A h \in DOMAIN hs :
              (hs[h].pc = "der_check_cs" /\ hs'[h].pc # "der_check_cs")
              => (hs'[h].exists <=>
                    FileExists(disk, TierPath(hs[h].tier, hs[h].db_name, hs[h].chunk_id)))
       ]_vars

\* A preview of the page with two chunks was generated on a miss.
C15_Witness ==
    \E h \in DOMAIN hs :
        /\ hs[h].pc = "done"
        /\ hs[h].cmd = "get_preview_url"
        /\ hs[h].arg = 1
        /\ ~hs[h].exists
        /\ hs[h].io = "ok"
        /\ hs[h].res = OkPath(preview_path(hs[h].db_name, 3))

\* C16: a command that met a failing lock() returns the Cache error.
C16_LockFailureSurfaced ==
    \A h \in DOMAIN hs :
        (hs[h].pc = "done" /\ hs[h].lock_err) => hs[h].res = Err("Cache")

\* C17 as stated: every store_derivative call whose bytes are not a
\* recognizable image returns an error, creates no file at the target path
\* and leaves every existing file present and unchanged.
C17_DecodeFailure ==
    [][ (nops' = nops + 1 /\ last'.op = "store" /\ ~Decodable(last'.bytes))
        => LET path == TierPath(last'.tier, last'.ns, last'.id)
           IN /\ last'.res.tag = "Err"
              /\ ~FileExists(disk, path) => ~FileExists(disk', path)
              /\ disk'.files = disk.files
      ]_vars

\* C17 amended: a store_derivative call whose bytes are not a recognizable
\* image and whose target does not exist returns an error and creates no
\* file at the target; when the target exists the call returns its path;
\* in both cases every existing file stays present and unchanged.
C17_DecodeFailureOnMiss ==
    [][ (nops' = nops + 1 /\ last'.op = "store" /\ ~Decodable(last'.bytes))
        => LET path == TierPath(last'.tier, last'.ns, last'.id)
           IN /\ ~FileExists(disk, path) =>
                    (last'.res = Err("Io") /\ ~FileExists(disk', path))
              /\ FileExists(disk, path) => last'.res = OkPath(path)
              /\ disk'.files = disk.files
      ]_vars

\* An undecodable store on an absent entry failed while another entry is
\* cached.
C17_Witness ==
    /\ last.op = "store"
    /\ ~Decodable(last.bytes)
    /\ ~last.existed
    /\ last.res = Err("Io")
    /\ ~FileExists(disk, LastPath)
    /\ \E k \in DOMAIN disk.files : disk.files[k][1] = "webp"

\* C18: no step changes the content of a file that continues to exist; a
\* file disappears only in a step of clear_cache or clear_db_cache; a
\* successful clear_cache leaves no entry in any tier, and a successful
\* clear_db_cache leaves no entry of its namespace in any tier.
C18_NeverMutatedInPlace ==
    [][ /\ \A k \in DOMAIN disk.files \cap DOMAIN disk'.files :
              disk'.files[k] = disk.files[k]
        /\ (DOMAIN disk.files \ DOMAIN disk'.files # {})
              => \E h \in DOMAIN hs : hs[h].pc \in {"clear_cs", "clearns_cs"}
        /\ \A h \in DOMAIN hs :
              /\ (hs[h].pc = "clear_cs" /\ hs'[h].res = OkUnit)
                    => DOMAIN disk'.files = {}
              /\ (hs[h].pc = "clearns_cs" /\ hs'[h].res = OkUnit)
                    => \A k \in DOMAIN disk'.files :
                          ~(Len(k[1]) >= 2 /\ k[1][2] = hs[h].db_name)
      ]_vars

\* C19: whenever the namespace is set it has the length of the database
\* name connected to, every character that is alphanumeric, '-' or '_' is
\* kept in its position and every other character is '_'; after a
\* disconnect (no pool) the namespace is not set.
C19_NamespaceIdentifier ==
    /\ conn.name.some =>
          /\ conn.pool.some
          /\ Len(conn.name.s) = Len(conn.pool.s)
          /\ \A i \in 1..Len(conn.name.s) :
                /\ conn.name.s[i] \in {"a", "A", "1", "-", "_"}
                /\ conn.name.s[i] =
                     (IF conn.pool.s[i] \in {"a", "A", "1", "-", "_"}
                      THEN conn.pool.s[i] ELSE "_")
    /\ ~conn.pool.some => ~conn.name.some

\* Connected to a database whose name has a character that was replaced.
C19_Witness ==
    /\ conn.name.some
    /\ \E i \in 1..Len(conn.pool.s) : conn.pool.s[i] = "." /\ conn.name.s[i] = "_"
    /\ \E i \in 1..Len(conn.pool.s) : conn.pool.s[i] = "-" /\ conn.name.s[i] = "-"

\* C20: every derivative stored from a decodable image of w x h pixels
\* (w, h >= 1) under thumbnails (D = 200) or previews (D = 1200) has both
\* dimensions between 1 and D, and each dimension is within one pixel of
\* the side scaled by D / max(w, h), so that the aspect ratio is kept
\* within a rounding of one pixel.
C20_DimensionInvariant ==
    \A k \in DOMAIN disk.files :
        LET c == disk.files[k]
            D == IF k[1][1] = "thumbnails" THEN 200 ELSE 1200
            w == width(c[2])
            h == height(c[2])
            long == IF w >= h THEN w ELSE h
        IN (c[1] = "webp" /\ w >= 1 /\ h >= 1) =>
              \A dim \in DerivativeDimensions(c) :
                  /\ dim[1] >= 1 /\ dim[1] <= D
                  /\ dim[2] >= 1 /\ dim[2] <= D
                  /\ dim[1] * long - w * D <= long
                  /\ w * D - dim[1] * long <= long
                  /\ dim[2] * long - h * D <= long
                  /\ h * D - dim[2] * long <= long

\* A thumbnail stored from an image so narrow that its short side is
\* rounded up to one pixel.
C20_Witness ==
    \E k \in DOMAIN disk.files :
        LET c == disk.files[k]
        IN /\ c[1] = "webp"
           /\ k[1][1] = "thumbnails"
           /\ width(c[2]) >= 1
           /\ 2 * 200 * width(c[2]) < height(c[2])
           /\ last.op = "store" /\ last.res.tag = "Ok" /\ ~last.existed

\* C21: a prefetch running alone issues its batch query only for chunk ids
\* that have no thumbnail; when every first chunk of the document already
\* had a thumbnail (this call wrote none, completely or in part) it returns
\* 0 without having fetched anything.
C21_FetchesOnlyUncached ==
    \A h \in DOMAIN hs :
        LET r == hs[h]
        IN /\ (r.cmd = "prefetch_document_thumbnails" /\ r.pc = "pf_fetch")
              => \A i \in 1..Len(r.uncached) :
                    ~FileExists(disk, << <<"thumbnails", r.db_name>>, r.uncached[i], "webp" >>)
           /\ ( /\ r.cmd = "prefetch_document_thumbnails"
                /\ r.pc = "done"
                /\ r.res # Err("NotConnected")
                /\ r.created = 0
                /\ ~r.fault
                /\ \A c \in DOMAIN chunks :
                      FileExists(disk, << <<"thumbnails", r.db_name>>, c, "webp" >>) )
              => (~r.fetched /\ r.res = OkNum(0))

\* C22: when get_thumbnail_url, get_preview_url or get_page_image_url
\* returns the path of a cache entry, the file of that path exists.
C22_ReturnedPathExists ==
    [][ \A h \in DOMAIN hs :
          ( /\ hs[h].pc = "done" /\ hs'[h].pc = "idle"
            /\ hs[h].cmd \in ResolveCmds
            /\ hs[h].res.tag = "Ok" /\ hs[h].res.kind = "path" )
          => FileExists(disk', hs[h].res.key)
      ]_vars

\* C23: a handler that writes a cache entry under namespace N has read the
\* rows and bytes it writes through the pool of the database whose
\* sanitized name is N.
C23_NamespaceOfPool ==
    [][ \A h \in DOMAIN hs :
          ( /\ hs[h].pc \in {"full_save_cs", "der_gen_cs", "pf_gen_cs"}
            /\ hs'[h].pc # hs[h].pc
            /\ disk'.files # disk.files )
          => hs[h].db_name = sanitize_for_path(hs[h].pool)
      ]_vars

\* C24: for the namespace of every connection, the path of an entry is
\* <tier dir>/<namespace>/<id>.webp; the namespace directory is a proper
\* subdirectory of the tier directory; and every other (tier, namespace, id)
\* has another path.
C24_PathForInjective ==
    conn.name.some =>
        \A tier \in StoreTiers, id \in 1..2 :
            LET path == TierPath(tier, conn.name.s, id)
            IN /\ path[1] = <<tier, conn.name.s>>
               /\ path[2] = id /\ path[3] = "webp"
               /\ IsPrefix(<<tier>>, path[1]) /\ path[1] # <<tier>>
               /\ \A t2 \in StoreTiers, id2 \in 1..2, n \in DatabaseNames :
                     <<t2, sanitize_for_path(n), id2>> # <<tier, conn.name.s, id>>
                     => TierPath(t2, sanitize_for_path(n), id2) # path

\* C25: whenever no connect_database or disconnect_database is between its
\* two writes, the pool is set iff the namespace is set; a command that
\* needs a connection and is invoked while neither is set returns
\* NotConnected at once and leaves the cache directory as it is; and with
\* the store available clear_cache and get_cache_size return Ok whatever the
\* connection.
C25_NotConnected ==
    /\ [](~(\E h \in DOMAIN hs : hs[h].pc \in {"conn_name", "disc_name"})
             => (conn.pool.some <=> conn.name.some))
    /\ [](\A h \in DOMAIN hs :
            (hs[h].pc = "done" /\ hs[h].cmd \in {"clear_cache", "get_cache_size"})
            => hs[h].res.tag = "Ok")
    /\ [][ \A h \in DOMAIN hs :
              ( /\ ncalls' = ncalls + 1
                /\ hs'[h] # hs[h]
                /\ hs'[h].cmd \in {"get_page_image_url", "get_thumbnail_url",
                                     "get_preview_url", "prefetch_document_thumbnails",
                                     "clear_db_cache"}
                /\ ~conn.pool.some /\ ~conn.name.some )
              => /\ hs'[h].pc = "done"
                 /\ hs'[h].res = Err("NotConnected")
                 /\ disk' = disk
       ]_vars

\* A command that needs a connection returned NotConnected after a
\* disconnect_database completed, and clear_cache ran while not connected.
C25_Witness ==
    /\ conn = NotConnected
    /\ hs[1].pc = "done" /\ hs[1].cmd = "disconnect_database"
    /\ hs[2].pc = "done" /\ hs[2].cmd = "get_thumbnail_url"
    /\ hs[2].res = Err("NotConnected")

\* The rows of the four tables an ingest writes
IngestTables == <<db.file, db.document, pages, chunks>>

\* C26: ingest is atomic and 1:1.  The file, document, page and chunk tables
\* change only in the step that commits the transaction of an ingest, and
\* that step adds exactly N page rows of the new document, numbered 1..N
\* with the images of the input in input order, and exactly one image_chunk
\* per new page holding the page's bytes, leaving the older rows alone; an
\* ingest that returned Ok reports page_count = image_chunk_count = N, and
\* one that returned an error (a page did not render or decode, or a
\* statement failed) has left no file, document, page or chunk row.
C26_IngestAtomic ==
    /\ [][ IngestTables' # IngestTables =>
             /\ hs[1].pc = "ing_commit"
             /\ hs'[1].pc = "ing_ns"
             /\ LET r == hs[1]
                    N == Len(r.input)
                    newP == DOMAIN pages' \ DOMAIN pages
                    newC == DOMAIN chunks' \ DOMAIN chunks
                IN /\ \A p \in DOMAIN pages : p \in DOMAIN pages' /\ pages'[p] = pages[p]
                   /\ \A c \in DOMAIN chunks : c \in DOMAIN chunks' /\ chunks'[c] = chunks[c]
                   /\ Cardinality(newP) = N
                   /\ Cardinality(newC) = N
                   /\ \A i \in 1..N : \E p \in newP :
                         /\ pages'[p] = PageRow(r.document_id, i,
                                                pages'[p].source_path, r.input[i])
                         /\ \A q \in newP : pages'[q].page_num < i => q < p
                   /\ \A p \in newP :
                         Cardinality({ c \in newC : chunks'[c].parent_page = p }) = 1
                   /\ \A c \in newC :
                         /\ chunks'[c].parent_page \in newP
                         /\ chunks'[c].contents = pages'[chunks'[c].parent_page].image_contents
                   /\ DOMAIN db'.document \ DOMAIN db.document = {r.document_id}
                   /\ db'.file \ db.file =
                        IF r.cmd = "ingest_pdf" THEN {r.file_id} ELSE {}
                   /\ r.generated = N ]_vars
    /\ [](\A h \in DOMAIN hs :
            hs[h].pc = "done" /\ hs[h].cmd \in IngestCmds /\ hs[h].res.tag = "Ok" =>
               /\ hs[h].res.page_count = Len(hs[h].input)
               /\ hs[h].res.image_chunk_count = Len(hs[h].input)
               /\ hs[h].res.document_id \in DOMAIN db.document
               /\ Cardinality({ p \in DOMAIN pages :
                       pages[p].document_id = hs[h].res.document_id }) = Len(hs[h].input))
    /\ [](\A h \in DOMAIN hs :
            hs[h].pc = "done" /\ hs[h].cmd \in IngestCmds /\ hs[h].res.tag = "Err" =>
               /\ hs[h].document_id \notin DOMAIN db.document
               /\ hs[h].file_id \notin db.file
               /\ \A p \in DOMAIN pages : pages[p].document_id # hs[h].document_id
               /\ hs[h].page_id \notin DOMAIN pages
               /\ \A c \in DOMAIN chunks : chunks[c].parent_page # hs[h].page_id)

\* An ingest of two pages has returned Ok and its rows are in the tables
C26_Witness ==
    /\ hs[1].pc = "done"
    /\ hs[1].cmd = "ingest_pdf"
    /\ hs[1].res.tag = "Ok"
    /\ hs[1].res.page_count = 2
    /\ hs[1].res.file_id \in db.file
    /\ Cardinality({ p \in DOMAIN pages : pages[p].document_id = hs[1].res.document_id }) = 2
    /\ Cardinality({ c \in DOMAIN chunks :
           pages[chunks[c].parent_page].document_id = hs[1].res.document_id }) = 2

\* The points of an ingest after its transaction committed
WarmUpPcs == {"ing_ns", "ing_thumb_lock", "ing_thumb_cs", "ing_prev_lock", "ing_prev_cs"}

\* The chunk ids an ingest that returned result res has inserted
ChunksOfIngest(res) ==
    { c \in DOMAIN chunks : pages[chunks[c].parent_page].document_id = res.document_id }

\* Every chunk of the ingest has a thumbnail and a preview entry in db_name
WarmedUp(res, db_name) ==
    \A c \in ChunksOfIngest(res) :
        /\ FileExists(disk, thumbnail_path(db_name, c))
        /\ FileExists(disk, preview_path(db_name, c))

\* The call of r is the first resolution after an ingest with namespace and
\* store available, for a page of the ingested document
FirstResolveAfterIngest(r) ==
    /\ r.cmd \in DerivativeCmdSet
    /\ r.prev.cmd \in IngestCmds
    /\ r.prev.res.tag = "Ok"
    /\ cacheMgr
    /\ r.prev.db_name # <<>>
    /\ r.db_name = r.prev.db_name
    /\ pages[r.arg].document_id = r.prev.res.document_id

EvidenceCmds ==
    {"create_query", "add_retrieval_relation", "remove_retrieval_relation",
     "reorder_evidence"}

RetrievalRelation(query_id, group_index, group_order, image_chunk_id) ==
    [query_id |-> query_id, group_index |-> group_index,
     group_order |-> group_order, image_chunk_id |-> image_chunk_id]

\* A handler of the evidence commands and of delete_document
EvIdle ==
    [pc |-> "idle", cmd |-> "none", res |-> NoRet, query_id |-> 0, group_index |-> 0,
     image_chunk_id |-> 0, group_order |-> 0, from_order |-> 0, to_order |-> 0,
     next_order |-> 0, evidence_groups |-> <<>>, before |-> <<>>,
     contiguous |-> FALSE, document_id |-> 0, path |-> 0, page_ids |-> {}]

\* WHERE query_id = $1 AND group_index = $2
GroupRows(rows, query_id, group_index) ==
    { r \in rows : r.query_id = query_id /\ r.group_index = group_index }

\* The primary key of row r is already the key of another row of rows
KeyTaken(rows, r) ==
    \E o \in rows : /\ o.query_id = r.query_id
                    /\ o.group_index = r.group_index
                    /\ o.group_order = r.group_order

\* The image chunks that an open transaction has deleted: their rows are
\* locked until the transaction ends
LockedChunks == UNION { db.tx[h].del_chunks : h \in DOMAIN db.tx }

\* INSERT INTO retrieval_relation ...: the row is a duplicate key, or
\* references no query or no image chunk
InsertFails(r) ==
    \/ KeyTaken(db.retrieval_relation, r)
    \/ r.query_id \notin db.query
    \/ r.image_chunk_id \notin DOMAIN chunks

\* UPDATE retrieval_relation SET group_order = group_order + delta for the
\* rows todo: the rows are updated one by one in an order the database
\* chooses, and the primary key is checked as each row is written, so the
\* statement fails (changing nothing) when a row's new key is still taken.
\* The set of the statement's possible outcomes.
RECURSIVE UpdateOutcomes(_, _, _)
UpdateOutcomes(rows, todo, delta) ==
    IF todo = {} THEN { [ok |-> TRUE, rows |-> rows] }
    ELSE UNION { LET new == [r EXCEPT !.group_order = @ + delta]
                 IN IF KeyTaken(rows \ {r}, new)
                    THEN { [ok |-> FALSE, rows |-> {}] }
                    ELSE UpdateOutcomes((rows \ {r}) \cup {new}, todo \ {r}, delta)
               : r \in todo }

\* The image chunks of a group in the order of group_order
RECURSIVE OrderedChunks(_)
OrderedChunks(G) ==
    IF G = {} THEN <<>>
    ELSE LET m == CHOOSE r \in G : \A o \in G : r.group_order <= o.group_order
         IN <<m.image_chunk_id>> \o OrderedChunks(G \ {m})

\* The group_order values of the rows G are exactly 0..n-1
Contiguous(G) == { r.group_order : r \in G } = 0..(Cardinality(G) - 1)

\* No other handler is inside a command
Quiet(h) == \A o \in DOMAIN hs \ {h} : hs[o].pc \in {"idle", "done"}

\* The evidence calls run one after another, except that
\* add_retrieval_relation may overlap with another add_retrieval_relation;
\* any of them may overlap with delete_document
MayStart(h, cmd) ==
    /\ ncalls < MaxCalls
    /\ hs[h].pc \in {"idle", "done"}
    /\ \A o \in DOMAIN hs \ {h} :
          \/ hs[o].pc \in {"idle", "done"}
          \/ hs[o].cmd = "delete_document"
          \/ cmd = "add_retrieval_relation" /\ hs[o].cmd = "add_retrieval_relation"

EvUnchanged == UNCHANGED <<disk, storeVars, cacheMgr, lock, conn, pages, chunks, srcFiles>>

\* create_query: INSERT INTO query ... RETURNING id
CreateQuery(h, evidence_groups) ==
    /\ MayStart(h, "create_query")
    /\ ncalls' = ncalls + 1
    /\ LET id == NextVal("query")
           r == [EvIdle EXCEPT !.cmd = "create_query", !.query_id = id,
                               !.evidence_groups = evidence_groups]
       IN /\ db' = [db EXCEPT !.seq["query"] = id, !.query = @ \cup {id}]
          /\ hs' = [hs EXCEPT ![h] =
                      IF \A g \in 1..Len(evidence_groups) : evidence_groups[g] = <<>>
                      THEN Finish(r, OkNum(id))
                      ELSE [r EXCEPT !.pc = "cq_insert"]]
    /\ EvUnchanged

\* create_query: the INSERT of the next relation, group by group and in the
\* order of the request; group_index and group_order are the positions
CqInsert(h) ==
    /\ hs[h].pc = "cq_insert"
    /\ LET r == hs[h]
           g == CHOOSE i \in 1..Len(r.evidence_groups) :
                   /\ r.evidence_groups[i] # <<>>
                   /\ \A j \in 1..(i - 1) : r.evidence_groups[j] = <<>>
           rest == [r.evidence_groups EXCEPT ![g] = Tail(@)]
           placed == Cardinality(GroupRows(db.retrieval_relation, r.query_id, g - 1))
           row == RetrievalRelation(r.query_id, g - 1, placed, Head(r.evidence_groups[g]))
       IN /\ row.image_chunk_id \notin LockedChunks
          /\ IF InsertFails(row)
             THEN /\ hs' = [hs EXCEPT ![h] = Finish(r, Err("Database"))]
                  /\ db' = db
             ELSE /\ db' = [db EXCEPT !.retrieval_relation = @ \cup {row}]
                  /\ hs' = [hs EXCEPT ![h] =
                              IF \A i \in 1..Len(rest) : rest[i] = <<>>
                              THEN Finish([r EXCEPT !.evidence_groups = rest],
                                          OkNum(r.query_id))
                              ELSE [r EXCEPT !.evidence_groups = rest]]
    /\ UNCHANGED ncalls
    /\ EvUnchanged

\* add_retrieval_relation is invoked
AddStart(h, query_id, group_index, image_chunk_id) ==
    /\ MayStart(h, "add_retrieval_relation")
    /\ ncalls' = ncalls + 1
    /\ hs' = [hs EXCEPT ![h] =
                [EvIdle EXCEPT !.cmd = "add_retrieval_relation", !.pc = "add_max",
                               !.query_id = query_id, !.group_index = group_index,
                               !.image_chunk_id = image_chunk_id]]
    /\ UNCHANGED db
    /\ EvUnchanged

\* SELECT MAX(group_order) ...; next_order = max + 1, or 0 for no row
AddMax(h) ==
    /\ hs[h].pc = "add_max"
    /\ LET G == GroupRows(db.retrieval_relation, hs[h].query_id, hs[h].group_index)
           max_order == CHOOSE m \in { r.group_order : r \in G } :
                           \A r \in G : r.group_order <= m
       IN hs' = [hs EXCEPT ![h].next_order = IF G = {} THEN 0 ELSE max_order + 1,
                           ![h].pc = "add_insert"]
    /\ UNCHANGED <<db, ncalls>>
    /\ EvUnchanged

\* INSERT INTO retrieval_relation (.., group_order = next_order, ..)
AddInsert(h) ==
    /\ hs[h].pc = "add_insert"
    /\ LET r == hs[h]
           row == RetrievalRelation(r.query_id, r.group_index, r.next_order, r.image_chunk_id)
       IN /\ row.image_chunk_id \notin LockedChunks
          /\ IF InsertFails(row)
             THEN /\ hs' = [hs EXCEPT ![h] = Finish(r, Err("Database"))]
                  /\ db' = db
             ELSE /\ db' = [db EXCEPT !.retrieval_relation = @ \cup {row}]
                  /\ hs' = [hs EXCEPT ![h] = Finish(r, OkNum(r.next_order))]
    /\ UNCHANGED ncalls
    /\ EvUnchanged

\* remove_retrieval_relation: DELETE ... WHERE group_order = $3
RemoveStart(h, query_id, group_index, group_order) ==
    /\ MayStart(h, "remove_retrieval_relation")
    /\ ncalls' = ncalls + 1
    /\ LET G == GroupRows(db.retrieval_relation, query_id, group_index)
       IN /\ db' = [db EXCEPT !.retrieval_relation =
                       @ \ { r \in G : r.group_order = group_order }]
          /\ hs' = [hs EXCEPT ![h] =
                      [EvIdle EXCEPT !.cmd = "remove_retrieval_relation",
                                     !.pc = "rm_shift", !.query_id = query_id,
                                     !.group_index = group_index,
                                     !.group_order = group_order,
                                     !.contiguous = Contiguous(G),
                                     !.before = OrderedChunks(G)]]
    /\ EvUnchanged

\* remove_retrieval_relation: UPDATE ... SET group_order = group_order - 1
\* WHERE group_order > $3
RemoveShift(h) ==
    /\ hs[h].pc = "rm_shift"
    /\ LET r == hs[h]
           G == GroupRows(db.retrieval_relation, r.query_id, r.group_index)
       IN \E out \in UpdateOutcomes(db.retrieval_relation,
                                    { x \in G : x.group_order > r.group_order }, -1) :
             IF out.ok
             THEN /\ db' = [db EXCEPT !.retrieval_relation = out.rows]
                  /\ hs' = [hs EXCEPT ![h] = Finish(r, OkUnit)]
             ELSE /\ db' = db
                  /\ hs' = [hs EXCEPT ![h] = Finish(r, Err("Database"))]
    /\ UNCHANGED ncalls
    /\ EvUnchanged

\* reorder_evidence is invoked: from_order == to_order returns Ok(true)
ReorderStart(h, query_id, group_index, from_order, to_order) ==
    /\ MayStart(h, "reorder_evidence")
    /\ ncalls' = ncalls + 1
    /\ LET r == [EvIdle EXCEPT !.cmd = "reorder_evidence", !.query_id = query_id,
                               !.group_index = group_index, !.from_order = from_order,
                               !.to_order = to_order,
                               !.contiguous = Contiguous(GroupRows(db.retrieval_relation,
                                                                   query_id, group_index)),
                               !.before = OrderedChunks(GroupRows(db.retrieval_relation,
                                                                  query_id, group_index))]
       IN hs' = [hs EXCEPT ![h] = IF from_order = to_order THEN Finish(r, OkUnit)
                                  ELSE [r EXCEPT !.pc = "ro_mark"]]
    /\ UNCHANGED db
    /\ EvUnchanged

\* reorder_evidence: UPDATE ... SET group_order = -1 WHERE group_order = $3
ReorderMark(h) ==
    /\ hs[h].pc = "ro_mark"
    /\ LET r == hs[h]
           G == GroupRows(db.retrieval_relation, r.query_id, r.group_index)
       IN \E out \in UpdateOutcomes(db.retrieval_relation,
                                    { x \in G : x.group_order = r.from_order },
                                    (-1) - r.from_order) :
             IF out.ok
             THEN /\ db' = [db EXCEPT !.retrieval_relation = out.rows]
                  /\ hs' = [hs EXCEPT ![h].pc = "ro_shift"]
             ELSE /\ db' = db
                  /\ hs' = [hs EXCEPT ![h] = Finish(r, Err("Database"))]
    /\ UNCHANGED ncalls
    /\ EvUnchanged

\* reorder_evidence: moving down shifts the rows in (from_order, to_order]
\* by -1, moving up shifts the rows in [to_order, from_order) by +1
ReorderShift(h) ==
    /\ hs[h].pc = "ro_shift"
    /\ LET r == hs[h]
           G == GroupRows(db.retrieval_relation, r.query_id, r.group_index)
           down == r.from_order < r.to_order
           todo == IF down
                   THEN { x \in G : x.group_order > r.from_order /\ x.group_order <= r.to_order }
                   ELSE { x \in G : x.group_order >= r.to_order /\ x.group_order < r.from_order }
       IN \E out \in UpdateOutcomes(db.retrieval_relation, todo, IF down THEN -1 ELSE 1) :
             IF out.ok
             THEN /\ db' = [db EXCEPT !.retrieval_relation = out.rows]
                  /\ hs' = [hs EXCEPT ![h].pc = "ro_final"]
             ELSE /\ db' = db
                  /\ hs' = [hs EXCEPT ![h] = Finish(r, Err("Database"))]
    /\ UNCHANGED ncalls
    /\ EvUnchanged

\* reorder_evidence: UPDATE ... SET group_order = $4 WHERE group_order = -1
ReorderFinal(h) ==
    /\ hs[h].pc = "ro_final"
    /\ LET r == hs[h]
           G == GroupRows(db.retrieval_relation, r.query_id, r.group_index)
       IN \E out \in UpdateOutcomes(db.retrieval_relation,
                                    { x \in G : x.group_order = -1 }, r.to_order + 1) :
             IF out.ok
             THEN /\ db' = [db EXCEPT !.retrieval_relation = out.rows]
                  /\ hs' = [hs EXCEPT ![h] = Finish(r, OkUnit)]
             ELSE /\ db' = db
                  /\ hs' = [hs EXCEPT ![h] = Finish(r, Err("Database"))]
    /\ UNCHANGED ncalls
    /\ EvUnchanged

\* The image chunks of the database of the evidence specifications: one
\* page and one chunk for each of MaxPages + 1 ids
EvidenceChunks == 1..(MaxPages + 1)

\* The requests of create_query: one group of up to MaxPages + 1 chunks
EvidenceRequests == { <<[i \in 1..n |-> i]>> : n \in 0..(MaxPages + 1) }

\* Connected, one document with a page and a chunk per id, no query
EvidenceInit ==
    /\ cacheMgr = TRUE
    /\ disk = DiskAfterNew(cacheMgr)
    /\ last = NoCall
    /\ nops = 0
    /\ lock = 0
    /\ conn = [pool |-> SomeStr(<<"a">>), name |-> SomeStr(<<"a">>)]
    /\ pages = [p \in EvidenceChunks |->
                  PageRow(1, p, SomeStr(<<"s", ".", "p", "d", "f">>), 1)]
    /\ chunks = [c \in EvidenceChunks |-> ChunkRow(c, 1)]
    /\ srcFiles = {}
    /\ hs = [h \in Handlers |-> EvIdle]
    /\ ncalls = 0
    /\ db = [NoTables EXCEPT !.file = {1}, !.document = (1 :> [path |-> 1])]

\* The positions of a group at the time of the call
Positions(query_id, group_index) ==
    0..(Cardinality(GroupRows(db.retrieval_relation, query_id, group_index)) - 1)

EvidenceNext ==
    \/ \E h \in Handlers, req \in EvidenceRequests : CreateQuery(h, req)
    \/ \E h \in Handlers : CqInsert(h)
    \/ \E h \in Handlers, q \in db.query, c \in EvidenceChunks : AddStart(h, q, 0, c)
    \/ \E h \in Handlers : AddMax(h)
    \/ \E h \in Handlers : AddInsert(h)
    \/ \E h \in Handlers, q \in db.query :
          \E k \in Positions(q, 0) : RemoveStart(h, q, 0, k)
    \/ \E h \in Handlers : RemoveShift(h)
    \/ \E h \in Handlers, q \in db.query :
          \E from_order, to_order \in Positions(q, 0) :
             ReorderStart(h, q, 0, from_order, to_order)
    \/ \E h \in Handlers : ReorderMark(h)
    \/ \E h \in Handlers : ReorderShift(h)
    \/ \E h \in Handlers : ReorderFinal(h)

SpecEvidence == EvidenceInit /\ [][EvidenceNext]_vars


\* -------------------------------------------------------------------------
\* delete_document (commands/documents.rs).  The count of blocking
\* relations, the document and its page ids are read on the pool; the
\* deletes run in one transaction.  The tables image_chunk_retrieved_result
\* and page_chunk_relation hold no rows here.
\* -------------------------------------------------------------------------

\* The rows a delete_document transaction has deleted and not yet committed
NoDeletes == [del_chunks |-> {}, del_pages |-> {}, del_document |-> {}, del_file |-> {}]

\* The image chunks of the pages of a document
ChunksOfDocument(document_id) ==
    { c \in DOMAIN chunks :
        /\ chunks[c].parent_page \in DOMAIN pages
        /\ pages[chunks[c].parent_page].document_id = document_id }

\* SELECT COUNT(*) FROM retrieval_relation rr JOIN image_chunk ic ...
\* JOIN page p ... WHERE p.document_id = $1
BlockingCount(document_id) ==
    Cardinality({ r \in db.retrieval_relation :
                    r.image_chunk_id \in ChunksOfDocument(document_id) })

\* delete_document is invoked by handler h
DeleteStart(h, document_id) ==
    /\ ncalls < MaxCalls
    /\ hs[h].pc \in {"idle", "done"}
    /\ ncalls' = ncalls + 1
    /\ hs' = [hs EXCEPT ![h] = [EvIdle EXCEPT !.cmd = "delete_document",
                                              !.pc = "del_count",
                                              !.document_id = document_id]]
    /\ UNCHANGED db
    /\ EvUnchanged

\* The safety re-check: blocking_count.0 > 0 returns the error
DelCount(h) ==
    /\ hs[h].pc = "del_count"
    /\ hs' = [hs EXCEPT ![h] =
                IF BlockingCount(hs[h].document_id) > 0
                THEN Finish(hs[h], Err("Custom"))
                ELSE [hs[h] EXCEPT !.pc = "del_fetch"]]
    /\ UNCHANGED <<db, ncalls>>
    /\ EvUnchanged

\* SELECT ... FROM document WHERE id = $1: NotFound, or its file FK
DelFetch(h) ==
    /\ hs[h].pc = "del_fetch"
    /\ hs' = [hs EXCEPT ![h] =
                IF hs[h].document_id \notin DOMAIN db.document
                THEN Finish(hs[h], Err("NotFound"))
                ELSE [hs[h] EXCEPT !.path = db.document[hs[h].document_id].path,
                                   !.pc = "del_page_ids"]]
    /\ UNCHANGED <<db, ncalls>>
    /\ EvUnchanged

\* SELECT id FROM page WHERE document_id = $1
DelPageIds(h) ==
    /\ hs[h].pc = "del_page_ids"
    /\ hs' = [hs EXCEPT ![h].page_ids =
                          { p \in DOMAIN pages : pages[p].document_id = hs[h].document_id },
                        ![h].pc = "del_begin"]
    /\ UNCHANGED <<db, ncalls>>
    /\ EvUnchanged

\* pool.begin()
DelBegin(h, ok) ==
    /\ hs[h].pc = "del_begin"
    /\ IF ~ok
       THEN /\ hs' = [hs EXCEPT ![h] = Finish(hs[h], Err("Database"))]
            /\ db' = db
       ELSE /\ hs' = [hs EXCEPT ![h].pc = IF hs[h].page_ids = {} THEN "del_pages"
                                          ELSE "del_chunks"]
            /\ db' = [db EXCEPT !.tx = (h :> NoDeletes) @@ db.tx]
    /\ UNCHANGED ncalls
    /\ EvUnchanged

\* Mutant of DelChunks: no foreign key from retrieval_relation to image_chunk.
DelChunksMutNoFk(h) ==
    /\ hs[h].pc = "del_chunks"
    /\ db' = [db EXCEPT !.tx[h].del_chunks =
                 { c \in DOMAIN chunks : chunks[c].parent_page \in hs[h].page_ids }]
    /\ hs' = [hs EXCEPT ![h].pc = "del_pages"]
    /\ UNCHANGED ncalls
    /\ EvUnchanged

\* DELETE FROM image_chunk WHERE parent_page = ANY($1): fails when a
\* retrieval_relation row references one of the chunks
DelChunks(h) ==
    /\ hs[h].pc = "del_chunks"
    /\ LET D == { c \in DOMAIN chunks : chunks[c].parent_page \in hs[h].page_ids }
       IN IF \E r \in db.retrieval_relation : r.image_chunk_id \in D
          THEN /\ hs' = [hs EXCEPT ![h] = Finish(hs[h], Err("Database"))]
               /\ db' = Rollback(h)
          ELSE /\ hs' = [hs EXCEPT ![h].pc = "del_pages"]
               /\ db' = [db EXCEPT !.tx[h].del_chunks = D]
    /\ UNCHANGED ncalls
    /\ EvUnchanged

\* DELETE FROM page WHERE document_id = $1: fails when an image_chunk that
\* the transaction has not deleted has one of the pages as parent_page
DelPages(h) ==
    /\ hs[h].pc = "del_pages"
    /\ LET P == { p \in DOMAIN pages : pages[p].document_id = hs[h].document_id }
       IN IF \E c \in DOMAIN chunks \ db.tx[h].del_chunks : chunks[c].parent_page \in P
          THEN /\ hs' = [hs EXCEPT ![h] = Finish(hs[h], Err("Database"))]
               /\ db' = Rollback(h)
          ELSE /\ hs' = [hs EXCEPT ![h].pc = "del_document"]
               /\ db' = [db EXCEPT !.tx[h].del_pages = P]
    /\ UNCHANGED ncalls
    /\ EvUnchanged

\* DELETE FROM document WHERE id = $1
DelDocument(h) ==
    /\ hs[h].pc = "del_document"
    /\ hs' = [hs EXCEPT ![h].pc = IF hs[h].path # 0 THEN "del_file" ELSE "del_commit"]
    /\ db' = [db EXCEPT !.tx[h].del_document = {hs[h].document_id}]
    /\ UNCHANGED ncalls
    /\ EvUnchanged

\* SELECT COUNT(*) FROM document WHERE path = $1 inside the transaction;
\* DELETE FROM file WHERE id = $1 when it is 0
DelFile(h) ==
    /\ hs[h].pc = "del_file"
    /\ LET other_docs == Cardinality({ d \in DOMAIN db.document \ db.tx[h].del_document :
                                         db.document[d].path = hs[h].path })
       IN db' = [db EXCEPT !.tx[h].del_file =
                     IF other_docs = 0 THEN {hs[h].path} ELSE {}]
    /\ hs' = [hs EXCEPT ![h].pc = "del_commit"]
    /\ UNCHANGED ncalls
    /\ EvUnchanged

\* tx.commit(): the deleted rows leave the tables; Ok(true)
DelCommit(h, ok) ==
    /\ hs[h].pc = "del_commit"
    /\ IF ~ok
       THEN /\ hs' = [hs EXCEPT ![h] = Finish(hs[h], Err("Database"))]
            /\ db' = Rollback(h)
            /\ UNCHANGED <<pages, chunks>>
       ELSE /\ hs' = [hs EXCEPT ![h] = Finish(hs[h], OkUnit)]
            /\ chunks' = [c \in DOMAIN chunks \ db.tx[h].del_chunks |-> chunks[c]]
            /\ pages' = [p \in DOMAIN pages \ db.tx[h].del_pages |-> pages[p]]
            /\ db' = [Rollback(h) EXCEPT
                        !.document = [d \in DOMAIN db.document \ db.tx[h].del_document |->
                                         db.document[d]],
                        !.file = @ \ db.tx[h].del_file]
    /\ UNCHANGED <<disk, storeVars, cacheMgr, lock, conn, srcFiles, ncalls>>

\* The documents of the delete specification: two of file 1 and one made
\* of images, each of one page with one chunk
DeleteDocuments == (1 :> [path |-> 1]) @@ (2 :> [path |-> 1]) @@ (3 :> [path |-> 0])

DeleteInit ==
    /\ cacheMgr = TRUE
    /\ disk = DiskAfterNew(cacheMgr)
    /\ last = NoCall
    /\ nops = 0
    /\ lock = 0
    /\ conn = [pool |-> SomeStr(<<"a">>), name |-> SomeStr(<<"a">>)]
    /\ pages = [p \in DOMAIN DeleteDocuments |->
                  PageRow(p, 1, SomeStr(<<"s", ".", "p", "d", "f">>), 1)]
    /\ chunks = [c \in DOMAIN DeleteDocuments |-> ChunkRow(c, 1)]
    /\ srcFiles = {}
    /\ hs = [h \in Handlers |-> EvIdle]
    /\ ncalls = 0
    /\ db = [NoTables EXCEPT !.file = {1}, !.document = DeleteDocuments,
                             !.query = {1}, !.seq["query"] = 1]

\* Handler 1 deletes documents, handler 2 attaches evidence
DeleteNext ==
    \/ \E document_id \in DOMAIN DeleteDocuments : DeleteStart(1, document_id)
    \/ DelCount(1)
    \/ DelFetch(1)
    \/ DelPageIds(1)
    \/ \E ok \in BOOLEAN : DelBegin(1, ok)
    \/ DelChunks(1)
    \/ DelPages(1)
    \/ DelDocument(1)
    \/ DelFile(1)
    \/ \E ok \in BOOLEAN : DelCommit(1, ok)
    \/ \E c \in DOMAIN DeleteDocuments : CreateQuery(2, << <<c>> >>)
    \/ CqInsert(2)
    \/ \E q \in db.query, c \in DOMAIN DeleteDocuments : AddStart(2, q, 0, c)
    \/ AddMax(2)
    \/ AddInsert(2)

SpecDelete == DeleteInit /\ [][DeleteNext]_vars

\* No command is running
AllQuiet == \A h \in DOMAIN hs : hs[h].pc \in {"idle", "done"}


C29_EvidenceOrder ==
    /\ AllQuiet =>
          \A q \in db.query : Contiguous(GroupRows(db.retrieval_relation, q, 0))
    /\ \A r, o \in db.retrieval_relation :
          ( /\ r.query_id = o.query_id
            /\ r.group_index = o.group_index
            /\ r.group_order = o.group_order ) => r = o

\* The list s with the item at index from_order (from 0) removed and
\* reinserted at index to_order
Reinserted(s, from_order, to_order) ==
    LET rest == SubSeq(s, 1, from_order) \o SubSeq(s, from_order + 2, Len(s))
    IN SubSeq(rest, 1, to_order) \o <<s[from_order + 1]>>
          \o SubSeq(rest, to_order + 1, Len(rest))

\* C30: a reorder_evidence(query_id, group_index, from_order, to_order) on a
\* group with positions 0..n-1 and 0 <= from_order, to_order < n returns
\* Ok(true) and leaves the group as the list with the item at from_order
\* removed and reinserted at to_order: positions 0..n-1 again, hence no
\* relation at -1, and the same chunk references.
C30_ReorderIsMove ==
    [][ \A h \in DOMAIN hs :
          ( /\ hs'[h].cmd = "reorder_evidence"
            /\ hs'[h].pc = "done"
            /\ hs[h] # hs'[h]
            /\ hs'[h].contiguous ) =>
             LET r == hs'[h]
                 G == GroupRows(db'.retrieval_relation, r.query_id, r.group_index)
             IN /\ r.res = OkUnit
                /\ Contiguous(G)
                /\ OrderedChunks(G) = Reinserted(r.before, r.from_order, r.to_order) ]_vars

====
